---- MODULE Spec2Model ----
(***************************************************************************)
(* A model of qrgen: the render pipeline generate_qr (src/qrgen/qr.py and  *)
(* the older src/qr_vcard/qr.py), the GUI generate handlers and the batch  *)
(* download of src/qrgen/gui.py.                                           *)
(*                                                                         *)
(* An image is carried in the state as a descriptor [w, h, stage]: its     *)
(* size, the last drawing step applied to it and the payload it encodes.   *)
(* Its pixels are given by the operator Pixel, which computes the pixel at *)
(* (x, y) after that step as the drawing calls of the source compose it.   *)
(* A pixel is [c |-> colour token, a |-> alpha 0..255].  Text is a         *)
(* sequence of one-character strings.                                      *)
(***************************************************************************)
EXTENDS Integers, Sequences, FiniteSets, TLC

VARIABLES
    \* one call of generate_qr
    pc,        \* position inside generate_qr
    cfg,       \* the arguments of the call
    loc,       \* locals of the post-processing block (b, qr_cr, hh, nw, ...)
    img,       \* the local `img`
    canvas,    \* the local `canvas`
    logged,    \* exceptions logged by generate_qr
    raisedAt,  \* the step whose exception left generate_qr ("" when none)
    \* the file system
    files,     \* path -> image descriptor
    files0,    \* history: the file system when the call was made
    dirs,      \* the directories that exist
    \* the GUI generate handlers
    req,       \* the last request: handler and field values
    resp,      \* what the handler returned: image path and message
    rendered,  \* the payloads the handler passed to generate_qr
    \* _download_batch
    rows,      \* the rows read from the CSV file
    bpc,       \* position inside _download_batch
    bi,        \* the loop index i
    tmp,       \* output/tmp_batch: file name index -> image descriptor
    zip,       \* output/qr_batch.zip: the archived files
    bret,      \* the value returned
    \* concurrent requests
    procs      \* request id -> its position, payload and returned path

renderVars == <<pc, cfg, loc, img, canvas, logged, raisedAt>>
fsVars == <<files, files0, dirs>>
guiVars == <<req, resp, rendered>>
batchVars == <<rows, bpc, bi, tmp, zip, bret>>
concVars == <<procs>>

vars == <<renderVars, fsVars, guiVars, batchVars, concVars>>

----------------------------------------------------------------------------
(* Bounds of the model *)

MaxSize == 120
MaxBorder == 12
MaxRadius == 6
BigLogoScalePct == 90

(* Program constants *)
MinSize == 100
DefaultHeaderFontSize == 24
DefaultFooterFontSize == 18
TextMargin == 16
LinePad == 4
BandPad == 8
TextTop == 4
TextSide == 8
LineGap == 2
LogoScalePct == 20
MinBuffer == 2
Opaque == 255
Modules == 29
QuietZone == 4

Max(a, b) == IF a >= b THEN a ELSE b
CeilDiv(a, b) == (a + b - 1) \div b

NoRadius == 0 - 1

----------------------------------------------------------------------------
(* Colours and pixels *)

Transparent == [c |-> "#000000", a |-> 0]
Solid(colour) == [c |-> colour, a |-> Opaque]

(* _to_rgb_tuple: an empty / None token resolves to the default, a name   *)
(* to its value in PIL's colormap.                                        *)
ToRgb(colour, default) ==
    IF colour = "" THEN default
    ELSE IF colour = "black" THEN "#000000"
    ELSE IF colour = "white" THEN "#ffffff"
    ELSE colour

----------------------------------------------------------------------------
(* The file system *)

NoFile == [w |-> 0, h |-> 0, stage |-> "absent", data |-> <<>>]
OldFile == [w |-> 1, h |-> 1, stage |-> "old", data |-> <<>>]
NoImage == [w |-> 0, h |-> 0, stage |-> "none", data |-> <<>>]

Dests == {"output/preview.png", "newdir/out.png", "out.png"}

(* os.path.dirname *)
DirName(path) ==
    CASE path = "output/preview.png" -> "output"
      [] path = "newdir/out.png" -> "newdir"
      [] OTHER -> ""

(* Image.save(dest) opens dest for writing: the directory must exist. The  *)
(* empty directory name is the current directory.                          *)
CanWrite(path, ds) == DirName(path) = "" \/ DirName(path) \in ds

----------------------------------------------------------------------------
(* The arguments of a call *)

(* One symbol of the alphabet stands for a run of BlockLen characters, so  *)
(* that a payload beyond the capacity of the largest symbol can be written *)
Block == "<block>"
BlockLen == 3000
ByteLen(s) ==
    LET RECURSIVE Sum(_)
        Sum(i) == IF i = 0 THEN 0
                  ELSE Sum(i - 1) + (IF s[i] = Block THEN BlockLen ELSE 1)
    IN Sum(Len(s))

OverlongPayload == <<Block>>
Payloads == {<<"H", "i">>, OverlongPayload}

Impls == {"qrgen", "qr_vcard"}

Logos == {"none", "missing", "corrupt", "ok"}
Clips == {"none", "circle", "square"}

(* the shape / module_drawer option; "None" is a missing value *)
Shapes == {"square", "Circle", "ROUNDED", "dot", "None"}

Cfgs ==
    { c \in [ impl : Impls,
              data : Payloads,
              dest : Dests,
              size : {MinSize, MaxSize},
              border : {0, MaxBorder},
              corner_radius : {0},
              qr_corner_radius : {NoRadius, MaxRadius},
              border_corner_radius : {NoRadius, MaxRadius},
              transparent_bg : BOOLEAN,
              header_text : {"", "HEADER"},
              footer_text : {"", "FOOTERFOOTER"},
              header_font_size : {DefaultHeaderFontSize},
              footer_font_size : {DefaultFooterFontSize},
              header_align : {"center"},
              footer_align : {"center"},
              logo : Logos,
              logo_clip : Clips,
              logo_scale : {LogoScalePct, BigLogoScalePct},
              color_mask : {"solid", "gradient"},
              gradient_angle : {"90", "45deg"},
              gradient_target : {"foreground", "background"},
              gradient_start : {"#1FA2D5"},
              fill_color : {"black"},
              back_color : {"white"},
              border_color : {"#ff0000", "#000000", ""},
              shape : Shapes ] :
        /\ (c.shape # "square" =>
               /\ c.logo = "none" /\ c.header_text = "" /\ c.footer_text = ""
               /\ c.qr_corner_radius = NoRadius
               /\ c.border_corner_radius = NoRadius
               /\ c.size = MinSize /\ c.border = 0 /\ ~c.transparent_bg
               /\ c.color_mask = "solid" /\ c.gradient_target = "foreground"
               /\ c.border_color = "#ff0000"
               /\ c.dest = "output/preview.png"
               /\ c.data # OverlongPayload /\ c.impl = "qrgen")
        /\ (c.border_color = "" \/ c.gradient_target = "background" =>
               /\ c.logo = "none" /\ c.header_text = "" /\ c.footer_text = ""
               /\ c.qr_corner_radius = NoRadius
               /\ c.border_corner_radius = NoRadius
               /\ c.size = MinSize /\ c.border = MaxBorder
               /\ c.dest = "output/preview.png"
               /\ c.data # OverlongPayload /\ c.impl = "qrgen"
               /\ c.border_color # "#000000")
        /\ (c.border_color = "#000000" =>
               /\ c.logo = "none" /\ c.color_mask = "solid"
               /\ c.qr_corner_radius = NoRadius
               /\ c.border_corner_radius = NoRadius
               /\ ~c.transparent_bg /\ c.size = MinSize
               /\ c.border = MaxBorder /\ c.dest = "output/preview.png"
               /\ c.data # OverlongPayload /\ c.impl = "qrgen")
        /\ (c.logo # "ok" =>
               c.logo_clip = "none" /\ c.logo_scale = LogoScalePct)
        /\ (c.logo_scale # LogoScalePct =>
               c.size = MinSize /\ c.color_mask = "solid")
        /\ (c.color_mask = "solid" => c.gradient_angle = "90")
        /\ (c.dest # "output/preview.png" =>
               /\ c.logo = "none" /\ c.color_mask = "solid"
               /\ c.header_text = "" /\ c.footer_text = ""
               /\ c.qr_corner_radius = NoRadius
               /\ c.border_corner_radius = NoRadius
               /\ ~c.transparent_bg /\ c.size = MinSize)
        /\ (c.data = OverlongPayload =>
               /\ c.logo = "none" /\ c.color_mask = "solid"
               /\ c.header_text = "" /\ c.footer_text = ""
               /\ c.qr_corner_radius = NoRadius
               /\ c.border_corner_radius = NoRadius
               /\ ~c.transparent_bg /\ c.size = MinSize /\ c.border = 0)
        /\ (c.impl = "qr_vcard" =>
               /\ c.border = 0 /\ c.qr_corner_radius = NoRadius
               /\ c.border_corner_radius = NoRadius /\ ~c.transparent_bg
               /\ c.header_text = "" /\ c.footer_text = ""
               /\ c.logo_clip = "none" /\ c.color_mask = "solid"
               /\ c.logo_scale = LogoScalePct) }

----------------------------------------------------------------------------
(* The external QR encoder *)

(* qr.add_data / qr.make(fit=True): raises DataOverflowError when the      *)
(* payload exceeds the capacity of the largest symbol.                     *)
CapacityH == 1273
EncoderFits(data) == ByteLen(data) <= CapacityH

(* The module stencil, seen at the resolution of the resized size x size   *)
(* image: a quiet zone of four light modules around a module pattern.      *)
Dark(data, x, y, size) ==
    LET mx == (x * Modules) \div size
        my == (y * Modules) \div size
    IN /\ mx >= QuietZone /\ mx < Modules - QuietZone
       /\ my >= QuietZone /\ my < Modules - QuietZone
       /\ (mx + my + ByteLen(data)) % 2 = 0

----------------------------------------------------------------------------
(* Geometry of the masks drawn with ImageDraw *)

(* rounded_rectangle([0, 0, W, H], radius=r, fill=255) on a W x H mask:    *)
(* the pixel (x, y) is filled unless it lies in a corner square outside    *)
(* the quarter circle of radius r.                                         *)
InRounded(x, y, W, H, r) ==
    LET cx == IF x < r THEN r - x ELSE IF x > W - r THEN x - (W - r) ELSE 0
        cy == IF y < r THEN r - y ELSE IF y > H - r THEN y - (H - r) ELSE 0
    IN cx * cx + cy * cy <= r * r

(* ellipse([0, 0, d, d], fill=255) *)
InEllipse(x, y, d) ==
    (2 * x - d) * (2 * x - d) + (2 * y - d) * (2 * y - d) <= d * d

InRect(x, y, x0, y0, w, h) ==
    /\ x >= x0 /\ x < x0 + w
    /\ y >= y0 /\ y < y0 + h

----------------------------------------------------------------------------
(* Text layout: _est_h and _draw_txt *)

(* width=max(1, int(pw / (header_font_size * 0.5))) with pw = cw - 2b - 16 *)
WrapWidth(c, cw, b) ==
    Max(1, (2 * (cw - 2 * b - TextMargin)) \div c.header_font_size)

(* textwrap.wrap of a text without spaces: chunks of `width` characters *)
NumLines(txt, width) == CeilDiv(Len(txt), width)

LineLen(txt, width, i) ==
    IF i < NumLines(txt, width) THEN width
    ELSE Len(txt) - (NumLines(txt, width) - 1) * width

(* _est_h: both bands are sized with header_font_size *)
EstH(c, txt, cw, b) ==
    IF txt = "" THEN 0
    ELSE NumLines(txt, WrapWidth(c, cw, b)) * (c.header_font_size + LinePad)
             + BandPad

(* The box a line drawn with a font of size fs occupies (textbbox): half   *)
(* the font size per glyph in width, the font size in height.              *)
GlyphW(fs) == fs \div 2

(* _draw_txt: line i is drawn at (tx, cy), cy advancing by lh + 2 *)
InkAt(c, txt, fs, al, y0, cw, b, x, y) ==
    /\ txt # ""
    /\ \E i \in 1..NumLines(txt, WrapWidth(c, cw, b)) :
          LET lw == LineLen(txt, WrapWidth(c, cw, b), i) * GlyphW(fs)
              lh == fs
              cy == y0 + (i - 1) * (lh + LineGap)
              tx == IF al = "left" THEN b + TextSide
                    ELSE IF al = "right" THEN cw - b - TextSide - lw
                    ELSE (cw - lw) \div 2
          IN InRect(x, y, tx, cy, lw, lh)

----------------------------------------------------------------------------
(* The locals of the post-processing block *)

(* lines 124-132: drawer_map.get(module_drawer.lower(), SquareModuleDrawer()); *)
(* None has no lower()                                                       *)
Drawer(shape) ==
    LET lower == [square |-> "square", Circle |-> "circle",
                  ROUNDED |-> "rounded", dot |-> "dot"]
        drawer_map == {"square", "gapped", "circle", "rounded", "vertical",
                       "horizontal"}
    IN IF shape = "None" THEN "AttributeError"
       ELSE IF lower[shape] \in drawer_map THEN lower[shape] ELSE "square"

Layout(c) ==
    LET b == Max(0, c.border)
        nw == c.size + b * 2
        hh == EstH(c, c.header_text, nw, b)
        fh == EstH(c, c.footer_text, nw, b)
        lsz == Max(1, (c.size * c.logo_scale) \div 100)
        buffer == Max(MinBuffer, lsz \div 10)
        csz == lsz + buffer * 2
    IN [ b |-> b,
         qr_cr |-> Max(0, IF c.qr_corner_radius # NoRadius
                          THEN c.qr_corner_radius ELSE c.corner_radius),
         outer_cr |-> Max(0, IF c.border_corner_radius # NoRadius
                             THEN c.border_corner_radius ELSE c.corner_radius),
         nw |-> nw, hh |-> hh, fh |-> fh,
         nh |-> c.size + b * 2 + hh + fh,
         px |-> b, py |-> b + hh,
         drawer |-> Drawer(c.shape), eye_drawer |-> Drawer(c.shape),
         lsz |-> lsz, buffer |-> buffer, csz |-> csz,
         lx |-> b + (c.size - lsz) \div 2,
         ly |-> b + hh + (c.size - lsz) \div 2,
         clx |-> b + (c.size - csz) \div 2,
         cly |-> b + hh + (c.size - csz) \div 2 ]

NoLocals == Layout([impl |-> "qrgen", data |-> <<>>, dest |-> "", size |-> 0,
    border |-> 0, corner_radius |-> 0, qr_corner_radius |-> NoRadius,
    border_corner_radius |-> NoRadius, transparent_bg |-> FALSE,
    header_text |-> "", footer_text |-> "",
    header_font_size |-> DefaultHeaderFontSize,
    footer_font_size |-> DefaultFooterFontSize,
    logo_scale |-> LogoScalePct, shape |-> "square"])

----------------------------------------------------------------------------
(* Pixels of the composed QR image (before post-processing) *)

UsesGradient(c) == c.color_mask = "gradient" /\ ~c.transparent_bg

FgLayer(c) ==
    IF UsesGradient(c) /\ c.gradient_target # "background"
    THEN Solid("gradient")
    ELSE Solid(ToRgb(c.fill_color, "#000000"))

BgLayer(c) ==
    IF c.transparent_bg THEN Transparent
    ELSE IF UsesGradient(c) /\ c.gradient_target = "background"
         THEN Solid("gradient")
         ELSE Solid(ToRgb(c.back_color, "#ffffff"))

(* QRPixel with the name of the destination encoded along with the data *)
QRPixelSalted(c, x, y) ==
    IF Dark(c.data \o [i \in 1..Len(c.dest) |-> "d"], x, y, c.size)
    THEN FgLayer(c) ELSE BgLayer(c)

(* Image.composite(fg_img, bg_img, mask), resized to size x size *)
QRPixel(c, x, y) ==
    IF Dark(c.data, x, y, c.size) THEN FgLayer(c) ELSE BgLayer(c)

----------------------------------------------------------------------------
(* Pixels of the canvas after each post-processing step *)

(* BorderFill without the gradient fallback *)
BorderFillFlat(c) ==
    IF c.border_color # "" THEN c.border_color
    ELSE IF c.back_color # "" THEN c.back_color ELSE "white"

BorderFill(c) ==
    LET actual_back_color ==
            IF c.color_mask = "gradient" /\ c.gradient_target = "background"
               /\ ~c.transparent_bg
            THEN (IF c.gradient_start # "" THEN c.gradient_start ELSE "white")
            ELSE (IF c.back_color # "" THEN c.back_color ELSE "white")
    IN IF c.border_color # "" THEN c.border_color ELSE actual_back_color

PixBackground(c, x, y) ==
    IF c.transparent_bg THEN Transparent
    ELSE Solid(ToRgb(BorderFill(c), "#ffffff"))

InQrMask(c, x, y) ==
    LET L == Layout(c)
    IN /\ InRect(x, y, L.px, L.py, c.size, c.size)
       /\ (L.qr_cr > 0 =>
              InRounded(x - L.px, y - L.py, c.size, c.size, L.qr_cr))

PixPasted(c, x, y) ==
    LET L == Layout(c)
    IN IF InQrMask(c, x, y) THEN QRPixel(c, x - L.px, y - L.py)
       ELSE PixBackground(c, x, y)

HeaderInk(c, x, y) ==
    LET L == Layout(c)
    IN InkAt(c, c.header_text, c.header_font_size, c.header_align,
             TextTop, L.nw, L.b, x, y)

FooterInk(c, x, y) ==
    LET L == Layout(c)
    IN InkAt(c, c.footer_text, c.footer_font_size, c.footer_align,
             L.py + c.size + L.b + TextTop, L.nw, L.b, x, y)

PixHeader(c, x, y) ==
    IF HeaderInk(c, x, y) THEN Solid(ToRgb(c.fill_color, "#000000"))
    ELSE PixPasted(c, x, y)

PixFooter(c, x, y) ==
    IF FooterInk(c, x, y) THEN Solid(ToRgb(c.fill_color, "#000000"))
    ELSE PixHeader(c, x, y)

(* canvas.putalpha(om): the alpha band is replaced by the mask *)
PixOuter(c, x, y) ==
    LET L == Layout(c)
        p == PixFooter(c, x, y)
    IN IF L.outer_cr > 0
       THEN [c |-> p.c,
             a |-> IF InRounded(x, y, L.nw, L.nh, L.outer_cr)
                   THEN Opaque ELSE 0]
       ELSE p

(* the alpha of the resized logo at (u, v) of the logo, after clipping *)
LogoCovers(c, u, v) ==
    LET L == Layout(c)
    IN /\ InRect(u, v, 0, 0, L.lsz, L.lsz)
       /\ (c.logo_clip = "circle" => InEllipse(u, v, L.lsz))

(* the cutout mask pasted as (0,0,0,0) beneath the logo *)
InCutout(c, u, v) ==
    LET L == Layout(c)
    IN /\ c.logo_clip # "none"
       /\ InRect(u, v, 0, 0, L.csz, L.csz)
       /\ IF c.logo_clip = "circle" THEN InEllipse(u, v, L.csz)
          ELSE InRounded(u, v, L.csz, L.csz, Max(1, L.buffer \div 2))

PixLogo(c, x, y) ==
    LET L == Layout(c)
    IN IF c.logo # "ok" THEN PixOuter(c, x, y)
       ELSE IF LogoCovers(c, x - L.lx, y - L.ly) THEN Solid("logo")
       ELSE IF InCutout(c, x - L.clx, y - L.cly) THEN Transparent
       ELSE PixOuter(c, x, y)

(* src/qr_vcard/qr.py: the plain QR, and the logo pasted at its centre *)
VcardPixel(c, stage, x, y) ==
    LET logo_size == (c.size * LogoScalePct) \div 100
        pos == (c.size - logo_size) \div 2
        q == IF Dark(c.data, x, y, c.size) THEN Solid(c.fill_color)
             ELSE Solid(c.back_color)
    IN IF stage = "vlogo" /\ InRect(x, y, pos, pos, logo_size, logo_size)
       THEN Solid("logo") ELSE q

(* The pixel at (x, y) of the image that descriptor d stands for *)
Pixel(c, d, x, y) ==
    CASE d.stage = "qr" -> QRPixel(c, x, y)
      [] d.stage = "background" -> PixBackground(c, x, y)
      [] d.stage = "pasted" -> PixPasted(c, x, y)
      [] d.stage = "header" -> PixHeader(c, x, y)
      [] d.stage = "footer" -> PixFooter(c, x, y)
      [] d.stage = "outer" -> PixOuter(c, x, y)
      [] d.stage = "logo" -> PixLogo(c, x, y)
      [] d.stage \in {"vqr", "vlogo"} -> VcardPixel(c, d.stage, x, y)
      [] d.stage = "placeholder" -> Solid("#FFFFFF")
      [] OTHER -> Transparent

----------------------------------------------------------------------------
(* generate_qr of src/qrgen/qr.py as one call: what it raises, the image   *)
(* it saves and how many exceptions it logs                                *)

(* float(gradient_angle or 0) *)
IsNumber(token) == token \in {"0", "45", "90"}

RenderOutcome(c) ==
    LET L == Layout(c)
    IN IF Drawer(c.shape) = "AttributeError"
       THEN [raised |-> "resolve", image |-> NoImage, logged |-> 0]
       ELSE IF ~EncoderFits(c.data)
       THEN [raised |-> "encode", image |-> NoImage, logged |-> 0]
       ELSE IF UsesGradient(c) /\ ~IsNumber(c.gradient_angle)
       THEN [raised |-> "compose", image |-> NoImage, logged |-> 0]
       ELSE IF c.logo = "corrupt"
       THEN [raised |-> "",
             image |-> [w |-> c.size, h |-> c.size, stage |-> "qr",
                        data |-> c.data],
             logged |-> 1]
       ELSE [raised |-> "",
             image |-> [w |-> L.nw, h |-> L.nh,
                        stage |-> IF c.logo = "ok" THEN "logo" ELSE "outer",
                        data |-> c.data],
             logged |-> 0]

----------------------------------------------------------------------------
(* Text: sequences of one-character strings *)

Digits == <<"0", "1", "2", "3", "4", "5", "6", "7", "8", "9">>
IsDigit(ch) == \E i \in 1..Len(Digits) : Digits[i] = ch
DigitVal(ch) == (CHOOSE i \in 1..Len(Digits) : Digits[i] = ch) - 1
Letters ==
    {"a", "b", "c", "d", "e", "f", "g", "h", "i", "j", "k", "l", "m",
     "n", "o", "p", "q", "r", "s", "t", "u", "v", "w", "x", "y", "z",
     "A", "B", "C", "D", "E", "F", "G", "H", "I", "J", "K", "L", "M",
     "N", "O", "P", "Q", "R", "S", "T", "U", "V", "W", "X", "Y", "Z"}
IsWord(ch) == IsDigit(ch) \/ ch \in Letters \/ ch = "_"
IsSpace(ch) == ch \in {" ", "\n"}

All(s, P(_)) == \A i \in 1..Len(s) : P(s[i])

(* str.strip() *)
Strip(s) ==
    IF \A i \in 1..Len(s) : IsSpace(s[i]) THEN <<>>
    ELSE LET first == CHOOSE i \in 1..Len(s) :
                          ~IsSpace(s[i]) /\ \A j \in 1..(i - 1) : IsSpace(s[j])
             last == CHOOSE i \in 1..Len(s) :
                          ~IsSpace(s[i]) /\ \A j \in (i + 1)..Len(s) : IsSpace(s[j])
         IN SubSeq(s, first, last)

StartsWith(s, prefix) ==
    Len(s) >= Len(prefix) /\ SubSeq(s, 1, Len(prefix)) = prefix

(* str.split(sep) for a one-character separator *)
RECURSIVE Split(_, _)
Split(s, sep) ==
    IF \A i \in 1..Len(s) : s[i] # sep THEN <<s>>
    ELSE LET k == CHOOSE i \in 1..Len(s) :
                      s[i] = sep /\ \A j \in 1..(i - 1) : s[j] # sep
         IN <<SubSeq(s, 1, k - 1)>> \o Split(SubSeq(s, k + 1, Len(s)), sep)

(* sep.join(parts) *)
RECURSIVE Join(_, _)
Join(parts, sep) ==
    IF Len(parts) = 0 THEN <<>>
    ELSE IF Len(parts) = 1 THEN parts[1]
    ELSE parts[1] \o sep \o Join(Tail(parts), sep)

(* str.lower() / str.upper() *)
LowerChar(ch) ==
    CASE ch = "A" -> "a" [] ch = "B" -> "b" [] ch = "C" -> "c"
      [] ch = "D" -> "d" [] ch = "E" -> "e" [] ch = "F" -> "f"
      [] ch = "G" -> "g" [] ch = "H" -> "h" [] ch = "I" -> "i"
      [] ch = "J" -> "j" [] ch = "K" -> "k" [] ch = "L" -> "l"
      [] ch = "M" -> "m" [] ch = "N" -> "n" [] ch = "O" -> "o"
      [] ch = "P" -> "p" [] ch = "Q" -> "q" [] ch = "R" -> "r"
      [] ch = "S" -> "s" [] ch = "T" -> "t" [] ch = "U" -> "u"
      [] ch = "V" -> "v" [] ch = "W" -> "w" [] ch = "X" -> "x"
      [] ch = "Y" -> "y" [] ch = "Z" -> "z"
      [] OTHER -> ch
UpperChar(ch) ==
    CASE ch = "a" -> "A" [] ch = "b" -> "B" [] ch = "c" -> "C"
      [] ch = "d" -> "D" [] ch = "e" -> "E" [] ch = "f" -> "F"
      [] ch = "g" -> "G" [] ch = "h" -> "H" [] ch = "i" -> "I"
      [] ch = "j" -> "J" [] ch = "k" -> "K" [] ch = "l" -> "L"
      [] ch = "m" -> "M" [] ch = "n" -> "N" [] ch = "o" -> "O"
      [] ch = "p" -> "P" [] ch = "q" -> "Q" [] ch = "r" -> "R"
      [] ch = "s" -> "S" [] ch = "t" -> "T" [] ch = "u" -> "U"
      [] ch = "v" -> "V" [] ch = "w" -> "W" [] ch = "x" -> "X"
      [] ch = "y" -> "Y" [] ch = "z" -> "Z"
      [] OTHER -> ch
Lower(s) == [i \in 1..Len(s) |-> LowerChar(s[i])]
Upper(s) == [i \in 1..Len(s) |-> UpperChar(s[i])]

(* urllib.parse.quote: unreserved characters are kept, the others are      *)
(* percent-encoded                                                         *)
QuoteChar(ch) ==
    IF IsWord(ch) \/ ch \in {".", "-", "~", "/"} THEN <<ch>>
    ELSE CASE ch = " " -> <<"%", "2", "0">>
           [] ch = "@" -> <<"%", "4", "0">>
           [] ch = "+" -> <<"%", "2", "B">>
           [] ch = ":" -> <<"%", "3", "A">>
           [] ch = ";" -> <<"%", "3", "B">>
           [] ch = "|" -> <<"%", "7", "C">>
           [] OTHER -> <<"%", "3", "F">>
RECURSIVE Quote(_)
Quote(s) == IF s = <<>> THEN <<>> ELSE QuoteChar(Head(s)) \o Quote(Tail(s))

(* urllib.parse.urlencode(params, quote_via=quote) of a list of pairs *)
RECURSIVE UrlEncode(_)
UrlEncode(params) ==
    IF params = <<>> THEN <<>>
    ELSE params[1][1] \o <<"=">> \o Quote(params[1][2])
         \o (IF Len(params) > 1 THEN <<"&">> ELSE <<>>)
         \o UrlEncode(Tail(params))

(* str(n) for n >= 0 *)
RECURSIVE IntToText(_)
IntToText(n) ==
    IF n < 10 THEN <<Digits[n + 1]>>
    ELSE IntToText(n \div 10) \o <<Digits[(n % 10) + 1]>>

(* The string literals of the payload formats *)
Lit ==
    [ HTTP |-> <<"h", "t", "t", "p", ":", "/", "/">>,
      HTTPS |-> <<"h", "t", "t", "p", "s", ":", "/", "/">>,
      SUBJECT |-> <<"s", "u", "b", "j", "e", "c", "t">>,
      BODY |-> <<"b", "o", "d", "y">>,
      MAILTO |-> <<"m", "a", "i", "l", "t", "o", ":">>,
      TEL |-> <<"t", "e", "l", ":">>,
      SMS |-> <<"s", "m", "s", ":">>,
      WPA |-> <<"W", "P", "A">>,
      NOPASS |-> <<"N", "O", "P", "A", "S", "S">>,
      WIFI_T |-> <<"W", "I", "F", "I", ":", "T", ":">>,
      H_TRUE |-> <<"H", ":", "t", "r", "u", "e">>,
      GEO |-> <<"g", "e", "o", ":">>,
      BEGIN_VCALENDAR |-> <<"B", "E", "G", "I", "N", ":", "V", "C", "A", "L", "E", "N", "D", "A", "R">>,
      VERSION_2 |-> <<"V", "E", "R", "S", "I", "O", "N", ":", "2", ".", "0">>,
      BEGIN_VEVENT |-> <<"B", "E", "G", "I", "N", ":", "V", "E", "V", "E", "N", "T">>,
      SUMMARY |-> <<"S", "U", "M", "M", "A", "R", "Y", ":">>,
      DTSTART |-> <<"D", "T", "S", "T", "A", "R", "T", ":">>,
      DTEND |-> <<"D", "T", "E", "N", "D", ":">>,
      LOCATION |-> <<"L", "O", "C", "A", "T", "I", "O", "N", ":">>,
      DESCRIPTION |-> <<"D", "E", "S", "C", "R", "I", "P", "T", "I", "O", "N", ":">>,
      UID |-> <<"U", "I", "D", ":">>,
      AT_QR_VCARD |-> <<"@", "q", "r", "-", "v", "c", "a", "r", "d">>,
      END_VEVENT |-> <<"E", "N", "D", ":", "V", "E", "V", "E", "N", "T">>,
      END_VCALENDAR |-> <<"E", "N", "D", ":", "V", "C", "A", "L", "E", "N", "D", "A", "R">>,
      AMOUNT |-> <<"a", "m", "o", "u", "n", "t">>,
      LABEL |-> <<"l", "a", "b", "e", "l">>,
      BITCOIN |-> <<"b", "i", "t", "c", "o", "i", "n", ":">>,
      MECARD_N |-> <<"M", "E", "C", "A", "R", "D", ":", "N", ":">>,
      TEL_ |-> <<"T", "E", "L", ":">>,
      EMAIL_ |-> <<"E", "M", "A", "I", "L", ":">>,
      ORG_ |-> <<"O", "R", "G", ":">>,
      NOTE_ |-> <<"N", "O", "T", "E", ":">> ]

MaxLatitude == 90
MaxLongitude == 180

----------------------------------------------------------------------------
(* src/qrgen/payloads.py *)

build_url(url0) ==
    LET url == Strip(url0)
    IN IF url = <<>> THEN <<>>
       ELSE IF StartsWith(url, Lit.HTTP) \/ StartsWith(url, Lit.HTTPS) THEN url
       ELSE Lit.HTTPS \o url

build_text(text) == Strip(text)

build_mailto(to0, subject, body) ==
    LET to == Strip(to0)
        params == (IF subject # <<>> THEN <<<<Lit.SUBJECT, subject>>>> ELSE <<>>)
                  \o (IF body # <<>> THEN <<<<Lit.BODY, body>>>> ELSE <<>>)
        qs == UrlEncode(params)
    IN IF to = <<>> THEN <<>>
       ELSE Lit.MAILTO \o to \o (IF qs # <<>> THEN <<"?">> \o qs ELSE <<>>)

build_tel(phone0) ==
    LET phone == Strip(phone0)
    IN IF phone = <<>> THEN <<>> ELSE Lit.TEL \o phone

build_sms(phone0, message) ==
    LET phone == Strip(phone0)
    IN IF phone = <<>> THEN <<>>
       ELSE IF message # <<>>
            THEN Lit.SMS \o phone \o <<"?">> \o UrlEncode(<<<<Lit.BODY, message>>>>)
            ELSE Lit.SMS \o phone

(* ssid.replace(";", "\;") *)
RECURSIVE EscapeSemicolons(_)
EscapeSemicolons(s) ==
    IF s = <<>> THEN <<>>
    ELSE (IF Head(s) = ";" THEN <<"\\", ";">> ELSE <<Head(s)>>)
         \o EscapeSemicolons(Tail(s))

build_wifi(ssid0, auth0, password, hidden) ==
    LET ssid == EscapeSemicolons(ssid0)
        auth == Upper(IF auth0 # <<>> THEN auth0 ELSE Lit.WPA)
        parts == <<Lit.WIFI_T \o auth, <<"S", ":">> \o ssid>>
                 \o (IF auth # Lit.NOPASS /\ password # <<>>
                     THEN <<<<"P", ":">> \o password>> ELSE <<>>)
                 \o (IF hidden THEN <<Lit.H_TRUE>> ELSE <<>>)
    IN Join(parts, <<";">>) \o <<";", ";">>

build_geo(lat0, lon0, label) ==
    LET lat == Strip(lat0)
        lon == Strip(lon0)
    IN IF lat = <<>> \/ lon = <<>> THEN <<>>
       ELSE IF label # <<>>
            THEN Lit.GEO \o lat \o <<",">> \o lon \o <<"?", "q", "=">> \o Quote(label)
            ELSE Lit.GEO \o lat \o <<",">> \o lon

(* uid = int(datetime.utcnow().timestamp()): the builder reads the clock *)
build_event(summary, start, end, location, description, now) ==
    LET lines == <<Lit.BEGIN_VCALENDAR, Lit.VERSION_2, Lit.BEGIN_VEVENT>>
                 \o (IF summary # <<>> THEN <<Lit.SUMMARY \o summary>> ELSE <<>>)
                 \o (IF start # <<>> THEN <<Lit.DTSTART \o start>> ELSE <<>>)
                 \o (IF end # <<>> THEN <<Lit.DTEND \o end>> ELSE <<>>)
                 \o (IF location # <<>> THEN <<Lit.LOCATION \o location>> ELSE <<>>)
                 \o (IF description # <<>>
                     THEN <<Lit.DESCRIPTION \o description>> ELSE <<>>)
                 \o <<Lit.UID \o IntToText(now) \o Lit.AT_QR_VCARD>>
                 \o <<Lit.END_VEVENT, Lit.END_VCALENDAR>>
    IN Join(lines, <<"\n">>)

build_applink(url) == build_url(url)

build_payment(address0, amount, label) ==
    LET address == Strip(address0)
        params == (IF amount # <<>> THEN <<<<Lit.AMOUNT, amount>>>> ELSE <<>>)
                  \o (IF label # <<>> THEN <<<<Lit.LABEL, label>>>> ELSE <<>>)
        qs == UrlEncode(params)
    IN IF address = <<>> THEN <<>>
       ELSE Lit.BITCOIN \o address \o (IF qs # <<>> THEN <<"?">> \o qs ELSE <<>>)

build_mecard(name, tel, email, org, note) ==
    LET parts == <<Lit.MECARD_N \o name>>
                 \o (IF tel # <<>> THEN <<Lit.TEL_ \o tel>> ELSE <<>>)
                 \o (IF email # <<>> THEN <<Lit.EMAIL_ \o email>> ELSE <<>>)
                 \o (IF org # <<>> THEN <<Lit.ORG_ \o org>> ELSE <<>>)
                 \o (IF note # <<>> THEN <<Lit.NOTE_ \o note>> ELSE <<>>)
    IN Join(parts, <<";">>) \o <<";">>

(* DEFAULT_VCARD_FIELDS: the template, as <<key, label>> pairs in order *)
DEFAULT_VCARD_FIELDS == <<
    <<<<"B", "E", "G", "I", "N">>,
      <<"V", "C", "A", "R", "D">>>>,
    <<<<"V", "E", "R", "S", "I", "O", "N">>,
      <<"4", ".", "0">>>>,
    <<<<"K", "I", "N", "D">>,
      <<"i", "n", "d", "i", "v", "i", "d", "u", "a", "l">>>>,
    <<<<"E", "M", "A", "I", "L", ";", "T", "Y", "P", "E", "=", "W", "O", "R", "K">>,
      <<"W", "o", "r", "k", " ", "E", "m", "a", "i", "l">>>>,
    <<<<"E", "M", "A", "I", "L", ";", "T", "Y", "P", "E", "=", "H", "O", "M", "E">>,
      <<"H", "o", "m", "e", " ", "E", "m", "a", "i", "l">>>>,
    <<<<"T", "I", "T", "L", "E">>,
      <<"T", "i", "t", "l", "e">>>>,
    <<<<"R", "O", "L", "E">>,
      <<"R", "o", "l", "e">>>>,
    <<<<"F", "N">>,
      <<"F", "u", "l", "l", " ", "N", "a", "m", "e">>>>,
    <<<<"B", "D", "A", "Y">>,
      <<"B", "i", "r", "t", "h", "d", "a", "y", " ", "(", "Y", "Y", "Y", "Y", "M", "M", "D", "D", ")">>>>,
    <<<<"A", "D", "R", ";", "T", "Y", "P", "E", "=", "H", "O", "M", "E">>,
      <<"H", "o", "m", "e", " ", "A", "d", "d", "r", "e", "s", "s", " ", "(", "p", "o", "b", "o", "x", ";", "e", "x", "t", ";", "s", "t", "r", "e", "e", "t", ";", "l", "o", "c", "a", "l", "i", "t", "y", ";", "r", "e", "g", "i", "o", "n", ";", "c", "o", "d", "e", ";", "c", "o", "u", "n", "t", "r", "y", ")">>>>,
    <<<<"N", "O", "T", "E">>,
      <<"N", "o", "t", "e", " ", "(", "k", "e", "e", "p", " ", "i", "t", " ", "s", "h", "o", "r", "t", ")">>>>,
    <<<<"T", "E", "L", ";", "T", "Y", "P", "E", "=", "C", "E", "L", "L">>,
      <<"C", "e", "l", "l", " ", "P", "h", "o", "n", "e">>>>,
    <<<<"T", "E", "L", ";", "T", "Y", "P", "E", "=", "W", "O", "R", "K">>,
      <<"W", "o", "r", "k", " ", "P", "h", "o", "n", "e">>>>,
    <<<<"T", "E", "L", ";", "T", "Y", "P", "E", "=", "H", "O", "M", "E">>,
      <<"H", "o", "m", "e", " ", "P", "h", "o", "n", "e">>>>,
    <<<<"T", "E", "L", ";", "T", "Y", "P", "E", "=", "F", "A", "X">>,
      <<"F", "a", "x">>>>,
    <<<<"U", "R", "L">>,
      <<"U", "R", "L">>>>,
    <<<<"T", "Z">>,
      <<"T", "i", "m", "e", "z", "o", "n", "e", " ", "(", "e", ".", "g", ".", " ", "A", "f", "r", "i", "c", "a", "/", "W", "i", "n", "d", "h", "o", "e", "k", ")">>>>,
    <<<<"O", "R", "G">>,
      <<"O", "r", "g", "a", "n", "i", "z", "a", "t", "i", "o", "n">>>>,
    <<<<"E", "N", "D">>,
      <<"V", "C", "A", "R", "D">>>>
  >>

Mandatory == {<<"B", "E", "G", "I", "N">>, <<"V", "E", "R", "S", "I", "O", "N">>, <<"E", "N", "D">>}

(* build_vcard(data): data is a sequence of <<key, value>> pairs, a later   *)
(* pair replacing an earlier one with the same key (a dict)                *)
HasKey(data, key) == \E i \in 1..Len(data) : data[i][1] = key
DictGet(data, key) ==
    data[CHOOSE i \in 1..Len(data) :
            data[i][1] = key /\ \A j \in (i + 1)..Len(data) : data[j][1] # key][2]

RECURSIVE VcardLines(_, _)
VcardLines(data, template) ==
    IF template = <<>> THEN <<>>
    ELSE LET key == Head(template)[1]
             rest == VcardLines(data, Tail(template))
         IN IF key \in Mandatory
            THEN <<key \o <<":">> \o Head(template)[2]>> \o rest
            ELSE IF HasKey(data, key) /\ Strip(DictGet(data, key)) # <<>>
            THEN <<key \o <<":">> \o DictGet(data, key)>> \o rest
            ELSE rest

build_vcard(data) == Join(VcardLines(data, DEFAULT_VCARD_FIELDS), <<"\n">>)

----------------------------------------------------------------------------
(* src/qrgen/validation.py *)

(* ^[+\d][\d\s\-()]{7,}$ *)
validate_phone(phone) ==
    /\ Len(phone) >= 8
    /\ (IsDigit(phone[1]) \/ phone[1] = "+")
    /\ \A i \in 2..Len(phone) :
          IsDigit(phone[i]) \/ IsSpace(phone[i]) \/ phone[i] \in {"-", "(", ")"}

(* ^[\w\.-]+@[\w\.-]+\.\w+$ *)
validate_email(email) ==
    LET name(ch) == IsWord(ch) \/ ch \in {".", "-"}
    IN \E at \in 2..Len(email) : \E dot \in (at + 2)..(Len(email) - 1) :
          /\ email[at] = "@" /\ email[dot] = "."
          /\ \A i \in 1..(at - 1) : name(email[i])
          /\ \A i \in (at + 1)..(dot - 1) : name(email[i])
          /\ \A i \in (dot + 1)..Len(email) : IsWord(email[i])

validate_required(value) == value # <<>> /\ Strip(value) # <<>>

(* float(text): an optional sign, digits, an optional fraction; the value  *)
(* is given by its sign, its integer part and whether the fraction is > 0  *)
RECURSIVE ToInt(_)
ToInt(s) == IF s = <<>> THEN 0 ELSE ToInt(SubSeq(s, 1, Len(s) - 1)) * 10
                                     + DigitVal(s[Len(s)])

ParseFloat(text) ==
    LET s == Strip(text)
        signed == s # <<>> /\ s[1] \in {"-", "+"}
        body == IF signed THEN Tail(s) ELSE s
        parts == Split(body, ".")
        whole == parts[1]
        frac == IF Len(parts) = 2 THEN parts[2] ELSE <<>>
        ok == /\ Len(parts) <= 2
              /\ whole \o frac # <<>>
              /\ All(whole, IsDigit) /\ All(frac, IsDigit)
    IN [ok |-> ok,
        neg |-> signed /\ s[1] = "-",
        whole |-> IF ok THEN ToInt(whole) ELSE 0,
        frac |-> ok /\ \E i \in 1..Len(frac) : frac[i] # "0"]

(* -limit <= value <= limit *)
WithinLimit(f, limit) == f.whole < limit \/ (f.whole = limit /\ ~f.frac)

validate_geo(lat, lon) ==
    /\ lat # <<>> /\ lon # <<>>
    /\ ParseFloat(lat).ok /\ ParseFloat(lon).ok
    /\ WithinLimit(ParseFloat(lat), MaxLatitude)
    /\ WithinLimit(ParseFloat(lon), MaxLongitude)

----------------------------------------------------------------------------
(* The parts of the state a specification does not use *)

NoRequest == [handler |-> "none", args |-> <<>>]
NoResponse == [img |-> "", msg |-> <<>>, err |-> ""]

GuiIdle == req = NoRequest /\ resp = NoResponse /\ rendered = <<>>
BatchIdle ==
    /\ rows = <<>> /\ bpc = "idle" /\ bi = 0
    /\ tmp = <<>> /\ zip = <<>> /\ bret = ""
ConcIdle == procs = <<>>

----------------------------------------------------------------------------
(* generate_qr of src/qrgen/qr.py, one action per step *)

Init ==
    /\ cfg \in Cfgs
    /\ pc = "start"
    /\ loc = NoLocals
    /\ img = NoImage
    /\ canvas = NoImage
    /\ \E pre \in {NoFile, OldFile} :
          files = [p \in Dests |-> IF p = cfg.dest THEN pre ELSE NoFile]
    /\ files0 = files
    /\ dirs = {"output"}
    /\ logged = 0
    /\ raisedAt = ""
    /\ GuiIdle /\ BatchIdle /\ ConcIdle

Raise(step) ==
    /\ pc' = "raised"
    /\ raisedAt' = step

(* lines 93-133: the keyword arguments are mapped, the drawer is chosen *)
Resolve ==
    /\ pc = "start" /\ cfg.impl = "qrgen"
    /\ IF Drawer(cfg.shape) = "AttributeError"
       THEN Raise("resolve")
       ELSE pc' = "encode" /\ UNCHANGED raisedAt
    /\ UNCHANGED <<cfg, loc, img, canvas, files, files0, dirs, logged>>
    /\ UNCHANGED <<guiVars, batchVars, concVars>>

(* Encode with the encoder failure caught and a blank image saved *)
EncodeCaught ==
    /\ pc = "encode"
    /\ IF EncoderFits(cfg.data)
       THEN pc' = "compose" /\ UNCHANGED img
       ELSE /\ img' = [w |-> cfg.size, h |-> cfg.size, stage |-> "background",
                       data |-> <<>>]
            /\ pc' = "save"
    /\ UNCHANGED <<cfg, loc, canvas, files, files0, dirs, logged, raisedAt>>
    /\ UNCHANGED <<guiVars, batchVars, concVars>>

(* lines 135-137: an encoder failure is outside every try block *)
Encode ==
    /\ pc = "encode"
    /\ IF EncoderFits(cfg.data)
       THEN pc' = "compose" /\ UNCHANGED raisedAt
       ELSE Raise("encode")
    /\ UNCHANGED <<cfg, loc, img, canvas, files, files0, dirs, logged>>
    /\ UNCHANGED <<guiVars, batchVars, concVars>>

(* lines 139-178: layers, gradient, composite and resize, outside the try *)
Compose ==
    /\ pc = "compose"
    /\ IF UsesGradient(cfg) /\ ~IsNumber(cfg.gradient_angle)
       THEN Raise("compose") /\ UNCHANGED img
       ELSE /\ img' = [w |-> cfg.size, h |-> cfg.size, stage |-> "qr", data |-> cfg.data]
            /\ pc' = "sizing"
            /\ UNCHANGED raisedAt
    /\ UNCHANGED <<cfg, loc, canvas, files, files0, dirs, logged>>
    /\ UNCHANGED <<guiVars, batchVars, concVars>>

(* lines 182-228 *)
Sizing ==
    /\ pc = "sizing"
    /\ loc' = Layout(cfg)
    /\ pc' = "background"
    /\ UNCHANGED <<cfg, img, canvas, files, files0, dirs, logged, raisedAt>>
    /\ UNCHANGED <<guiVars, batchVars, concVars>>

(* lines 230-240 *)
Background ==
    /\ pc = "background"
    /\ canvas' = [w |-> loc.nw, h |-> loc.nh, stage |-> "background",
                  data |-> cfg.data]
    /\ pc' = "paste"
    /\ UNCHANGED <<cfg, loc, img, files, files0, dirs, logged, raisedAt>>
    /\ UNCHANGED <<guiVars, batchVars, concVars>>

(* lines 242-250 *)
PasteQR ==
    /\ pc = "paste"
    /\ canvas' = [canvas EXCEPT !.stage = "pasted"]
    /\ pc' = "header"
    /\ UNCHANGED <<cfg, loc, img, files, files0, dirs, logged, raisedAt>>
    /\ UNCHANGED <<guiVars, batchVars, concVars>>

(* line 254 *)
DrawHeader ==
    /\ pc = "header"
    /\ canvas' = [canvas EXCEPT !.stage = "header"]
    /\ pc' = "footer"
    /\ UNCHANGED <<cfg, loc, img, files, files0, dirs, logged, raisedAt>>
    /\ UNCHANGED <<guiVars, batchVars, concVars>>

(* line 255 *)
DrawFooter ==
    /\ pc = "footer"
    /\ canvas' = [canvas EXCEPT !.stage = "footer"]
    /\ pc' = "outer"
    /\ UNCHANGED <<cfg, loc, img, files, files0, dirs, logged, raisedAt>>
    /\ UNCHANGED <<guiVars, batchVars, concVars>>

(* lines 257-261 *)
OuterMask ==
    /\ pc = "outer"
    /\ canvas' = [canvas EXCEPT !.stage = "outer"]
    /\ pc' = "logo"
    /\ UNCHANGED <<cfg, loc, img, files, files0, dirs, logged, raisedAt>>
    /\ UNCHANGED <<guiVars, batchVars, concVars>>

(* lines 263-302: Image.open raises on a file that is not an image; the    *)
(* exception leaves the try block before `img = canvas`.                   *)
Logo ==
    /\ pc = "logo"
    /\ CASE cfg.logo = "ok" ->
              canvas' = [canvas EXCEPT !.stage = "logo"] /\ pc' = "commit"
         [] cfg.logo = "corrupt" ->
              UNCHANGED canvas /\ pc' = "except"
         [] OTHER ->
              UNCHANGED canvas /\ pc' = "commit"
    /\ UNCHANGED <<cfg, loc, img, files, files0, dirs, logged, raisedAt>>
    /\ UNCHANGED <<guiVars, batchVars, concVars>>

(* line 303 *)
Commit ==
    /\ pc = "commit"
    /\ img' = canvas
    /\ pc' = "save"
    /\ UNCHANGED <<cfg, loc, canvas, files, files0, dirs, logged, raisedAt>>
    /\ UNCHANGED <<guiVars, batchVars, concVars>>

(* lines 304-305 *)
Except ==
    /\ pc = "except"
    /\ logged' = logged + 1
    /\ pc' = "save"
    /\ UNCHANGED <<cfg, loc, img, canvas, files, files0, dirs, raisedAt>>
    /\ UNCHANGED <<guiVars, batchVars, concVars>>

(* line 307 (src/qr_vcard/qr.py line 93): img.save(dest) *)
Save ==
    /\ pc = "save"
    /\ IF CanWrite(cfg.dest, dirs)
       THEN /\ files' = [files EXCEPT ![cfg.dest] = img]
            /\ pc' = "returned"
            /\ UNCHANGED raisedAt
       ELSE Raise("save") /\ UNCHANGED files
    /\ UNCHANGED <<cfg, loc, img, canvas, files0, dirs, logged>>
    /\ UNCHANGED <<guiVars, batchVars, concVars>>

----------------------------------------------------------------------------
(* generate_qr of src/qr_vcard/qr.py *)

(* lines 55-56: os.path.exists("") is false and os.makedirs("") raises *)
VMakedirs ==
    /\ pc = "start" /\ cfg.impl = "qr_vcard"
    /\ IF DirName(cfg.dest) \in dirs
       THEN pc' = "vencode" /\ UNCHANGED <<dirs, raisedAt>>
       ELSE IF DirName(cfg.dest) = ""
            THEN Raise("makedirs") /\ UNCHANGED dirs
            ELSE /\ dirs' = dirs \cup {DirName(cfg.dest)}
                 /\ pc' = "vencode"
                 /\ UNCHANGED raisedAt
    /\ UNCHANGED <<cfg, loc, img, canvas, files, files0, logged>>
    /\ UNCHANGED <<guiVars, batchVars, concVars>>

(* lines 62-77 *)
VEncode ==
    /\ pc = "vencode"
    /\ IF EncoderFits(cfg.data)
       THEN /\ img' = [w |-> cfg.size, h |-> cfg.size, stage |-> "vqr", data |-> cfg.data]
            /\ pc' = "vlogo"
            /\ UNCHANGED raisedAt
       ELSE Raise("encode") /\ UNCHANGED img
    /\ UNCHANGED <<cfg, loc, canvas, files, files0, dirs, logged>>
    /\ UNCHANGED <<guiVars, batchVars, concVars>>

(* lines 80-91: the logo has a try block of its own *)
VLogo ==
    /\ pc = "vlogo"
    /\ CASE cfg.logo = "ok" ->
              img' = [img EXCEPT !.stage = "vlogo"] /\ UNCHANGED logged
         [] cfg.logo = "corrupt" ->
              UNCHANGED img /\ logged' = logged + 1
         [] OTHER ->
              UNCHANGED <<img, logged>>
    /\ pc' = "save"
    /\ UNCHANGED <<cfg, loc, canvas, files, files0, dirs, raisedAt>>
    /\ UNCHANGED <<guiVars, batchVars, concVars>>

(* A second call with the same arguments and another dest: the locals of   *)
(* the first call are gone, the files it wrote remain                      *)
CallAgain ==
    /\ pc = "returned"
    /\ \A d \in Dests \ {cfg.dest} : files[d].stage \in {"absent", "old"}
    /\ \E d \in Dests \ {cfg.dest} : cfg' = [cfg EXCEPT !.dest = d]
    /\ pc' = "start"
    /\ loc' = NoLocals /\ img' = NoImage /\ canvas' = NoImage
    /\ logged' = 0
    /\ UNCHANGED <<files, files0, dirs, raisedAt>>
    /\ UNCHANGED <<guiVars, batchVars, concVars>>

Next ==
    \/ Resolve \/ Encode \/ Compose \/ Sizing \/ Background \/ PasteQR
    \/ DrawHeader \/ DrawFooter \/ OuterMask \/ Logo \/ Commit \/ Except
    \/ Save \/ VMakedirs \/ VEncode \/ VLogo \/ CallAgain

Spec == Init /\ [][Next]_vars

----------------------------------------------------------------------------
(* Properties of generate_qr *)

(* The pixels at which two images are compared: the corners, the edges of  *)
(* the border, of the QR region, of the text bands and of the logo.        *)
ProbeXs(c) ==
    LET L == Layout(c)
    IN {0, 2, L.b, L.b + 2, L.nw \div 2, L.nw - L.b - 1, L.nw - 1,
        L.lx, L.clx}

ProbeYs(c) ==
    LET L == Layout(c)
    IN {0, 2, TextTop + 1, L.py, L.py + 2, L.py + c.size \div 2,
        L.py + c.size - 1, L.py + c.size + L.b + TextTop + 1, L.nh - 1,
        L.ly, L.cly}

Probes(c, d) ==
    (ProbeXs(c) \cap (0..(d.w - 1))) \X (ProbeYs(c) \cap (0..(d.h - 1)))

SameImage(c1, d1, c2, d2) ==
    /\ d1.w = d2.w /\ d1.h = d2.h
    /\ \A p \in Probes(c1, d1) :
          Pixel(c1, d1, p[1], p[2]) = Pixel(c2, d2, p[1], p[2])

Saved == files[cfg.dest]

(* The step by step run and the one-call summary agree. *)
StepsAgreeWithOutcome ==
    /\ (pc = "returned" /\ cfg.impl = "qrgen" =>
           /\ Saved = RenderOutcome(cfg).image
           /\ logged = RenderOutcome(cfg).logged
           /\ RenderOutcome(cfg).raised = "")
    /\ (pc = "raised" /\ cfg.impl = "qrgen" /\ raisedAt # "save" =>
           RenderOutcome(cfg).raised = raisedAt)

(* C1: every saved image is size + 2b wide and size + 2b + headerHeight +  *)
(* footerHeight high, on every path that reaches the save.                 *)
C1_SavedDimensions ==
    (pc = "returned" /\ cfg.impl = "qrgen") =>
        /\ Saved.w = cfg.size + 2 * cfg.border
        /\ Saved.h = cfg.size + 2 * cfg.border
                       + EstH(cfg, cfg.header_text, cfg.size + 2 * cfg.border,
                              cfg.border)
                       + EstH(cfg, cfg.footer_text, cfg.size + 2 * cfg.border,
                              cfg.border)

(* whether opaque content (a dark module, text ink, the logo) is drawn at  *)
(* (x, y) of the image d                                                   *)
Covered(c, d, x, y) ==
    LET L == Layout(c)
    IN IF d.stage = "qr" THEN Dark(c.data, x, y, c.size)
       ELSE \/ InQrMask(c, x, y) /\ Dark(c.data, x - L.px, y - L.py, c.size)
            \/ HeaderInk(c, x, y)
            \/ FooterInk(c, x, y)
            \/ c.logo = "ok" /\ LogoCovers(c, x - L.lx, y - L.ly)

(* C2: with transparent_bg every pixel of the saved image not covered by a *)
(* dark module, text ink or the logo has alpha 0.                          *)
C2_TransparentBackground ==
    (pc = "returned" /\ cfg.impl = "qrgen" /\ cfg.transparent_bg) =>
        \A p \in Probes(cfg, Saved) :
            ~Covered(cfg, Saved, p[1], p[2]) =>
                Pixel(cfg, Saved, p[1], p[2]).a = 0

WithoutLogo(c) == [c EXCEPT !.logo = "none", !.logo_clip = "none"]

(* C3: a post-processing failure is logged, not re-raised, and the image   *)
(* saved is the canvas assembled up to the failure: a render with a        *)
(* corrupt logo equals the render of the same configuration without logo.  *)
C3_FailureKeepsCanvas ==
    (pc = "returned" /\ cfg.impl = "qrgen" /\ cfg.logo = "corrupt") =>
        /\ logged = 1 /\ raisedAt = ""
        /\ SameImage(cfg, Saved, WithoutLogo(cfg),
                     RenderOutcome(WithoutLogo(cfg)).image)

(* C4: once the payload is encoded no failure of compositing or layout     *)
(* leaves generate_qr: it is caught and logged and an image is written.    *)
C4_NoCompositingFailurePropagates ==
    (cfg.impl = "qrgen" /\ EncoderFits(cfg.data) /\ CanWrite(cfg.dest, dirs)) =>
        /\ pc # "raised"
        /\ (pc = "returned" => Saved.stage \notin {"absent", "old"})

(* C5: when the encoder raises, generate_qr raises and writes nothing: no  *)
(* file is created and a file already at dest is left unchanged.           *)
C5_EncoderFailureWritesNothing ==
    (cfg.impl = "qrgen" /\ ~EncoderFits(cfg.data)) =>
        /\ files = files0
        /\ pc \in {"start", "encode", "raised"}
        /\ (pc = "raised" => raisedAt = "encode")

C5_Witness ==
    /\ cfg.impl = "qrgen" /\ ~EncoderFits(cfg.data)
    /\ pc = "raised" /\ raisedAt = "encode"
    /\ files0[cfg.dest] = OldFile /\ files[cfg.dest] = OldFile

(* C6: on successful return the file at dest exists; a missing parent      *)
(* directory is created first and a dest without a directory component is  *)
(* written in the current directory without error.                         *)
C6_DestinationIsCreated ==
    /\ (pc = "returned" =>
           /\ Saved.stage \notin {"absent", "old"}
           /\ (DirName(cfg.dest) # "" => DirName(cfg.dest) \in dirs))
    /\ (pc = "raised" => raisedAt \notin {"makedirs", "save"})

(* whether a file holds an image written by generate_qr *)
Rendered(f) == f.stage \notin {"absent", "old"}

(* the arguments of the call that wrote dest d *)
CallTo(d) == [cfg EXCEPT !.dest = d]

C12_LogoInsideQrRegion ==
    (pc = "returned" /\ cfg.impl = "qrgen" /\ Saved.stage = "logo") =>
        /\ loc.lx = loc.b + (cfg.size - loc.lsz) \div 2
        /\ loc.ly = loc.b + loc.hh + (cfg.size - loc.lsz) \div 2
        /\ \A p \in Probes(cfg, Saved) :
              PixLogo(cfg, p[1], p[2]) # PixOuter(cfg, p[1], p[2]) =>
                  InRect(p[1], p[2], loc.b, loc.b + loc.hh, cfg.size, cfg.size)

(* C17: whenever the header (or footer) text is non-empty, the band of the *)
(* saved image holds text-ink pixels whose colour differs from the band's  *)
(* fill, for every choice of foreground, background and border colours.    *)
C17_TextInkVisible ==
    (pc = "returned" /\ cfg.impl = "qrgen") =>
        LET L == Layout(cfg)
            Pix(p) == Pixel(cfg, Saved, p[1], p[2])
            InHeader(p) == p[2] < L.py
            InFooter(p) == p[2] >= L.py + cfg.size
            Ink(p) == HeaderInk(cfg, p[1], p[2]) \/ FooterInk(cfg, p[1], p[2])
            Shows(InBand(_)) ==
                /\ Saved.h = L.nh
                /\ \E p \in Probes(cfg, Saved) :
                      /\ InBand(p) /\ Ink(p)
                      /\ \A q \in Probes(cfg, Saved) :
                            InBand(q) /\ ~Ink(q) => Pix(p) # Pix(q)
        IN /\ cfg.header_text # "" => Shows(InHeader)
           /\ cfg.footer_text # "" => Shows(InFooter)

(* C19: in one render the canvas is modified in the order background, QR   *)
(* paste, header text, footer text, logo embed, outer corner mask: the     *)
(* logo is embedded before the outer corner mask, which is the last        *)
(* modification of the canvas before the save.                             *)
C19_StepOrder ==
    [][ LET Order == [background |-> 1, pasted |-> 2, header |-> 3,
                      footer |-> 4, logo |-> 5, outer |-> 6]
            (* without an outer radius the mask step modifies nothing *)
            Rank(s) == IF s = "outer" /\ loc.outer_cr = 0
                       THEN Order.footer ELSE Order[s]
        IN (canvas.stage \in DOMAIN Order /\ canvas'.stage \in DOMAIN Order)
               => Rank(canvas'.stage) >= Rank(canvas.stage) ]_vars

(* C20: the outer corner mask changes only the pixels outside the outer    *)
(* rounded rectangle, making them transparent; every pixel inside keeps    *)
(* the colour and alpha it had before the mask, also when the background   *)
(* is transparent.                                                         *)
C20_OuterMaskFrame ==
    [][ (pc = "outer" /\ pc' = "logo" /\ loc.outer_cr > 0) =>
            \A p \in Probes(cfg, canvas) :
                IF InRounded(p[1], p[2], loc.nw, loc.nh, loc.outer_cr)
                THEN Pixel(cfg, canvas', p[1], p[2])
                         = Pixel(cfg, canvas, p[1], p[2])
                ELSE Pixel(cfg, canvas', p[1], p[2]).a = 0 ]_vars

(* the border fill as the claim C23 states it *)
ClaimedBorderFill(c) ==
    IF c.border_color # "" THEN c.border_color
    ELSE IF c.color_mask = "gradient" /\ c.gradient_target = "background"
         THEN c.gradient_start
         ELSE c.back_color

(* C23 as stated: the canvas is filled with border_color whenever it is    *)
(* set, otherwise with the background colour, and with the gradient's      *)
(* start colour when the background is a gradient targeting the background *)
C23_BorderFillAsStated ==
    (canvas.stage = "background" /\ cfg.border > 0) =>
        \A p \in Probes(cfg, canvas) :
            Pixel(cfg, canvas, p[1], p[2])
                = Solid(ToRgb(ClaimedBorderFill(cfg), "#ffffff"))

(* C23, amended: the same, when the background is not transparent; with    *)
(* transparent_bg the canvas is created fully transparent                  *)
C23_BorderFill ==
    (canvas.stage = "background" /\ cfg.border > 0 /\ ~cfg.transparent_bg) =>
        \A p \in Probes(cfg, canvas) :
            Pixel(cfg, canvas, p[1], p[2])
                = Solid(ToRgb(ClaimedBorderFill(cfg), "#ffffff"))

(* the canvas of a render without border colour whose gradient targets the *)
(* background has just been created                                        *)
C23_Witness ==
    /\ canvas.stage = "background" /\ ~cfg.transparent_bg
    /\ cfg.border > 0 /\ cfg.border_color = ""
    /\ cfg.color_mask = "gradient" /\ cfg.gradient_target = "background"

(* C26: the hole cut beneath the logo has the size, shape and position of  *)
(* the logo's clip mask: with an opaque logo on a non-transparent          *)
(* background, and no outer radius, no pixel of the saved image is         *)
(* transparent.                                                            *)
C26_HoleMatchesClipMask ==
    (pc = "returned" /\ cfg.impl = "qrgen" /\ Saved.stage = "logo"
        /\ ~cfg.transparent_bg /\ loc.outer_cr = 0) =>
        /\ cfg.logo_clip # "none" =>
              /\ loc.csz = loc.lsz
              /\ loc.clx = loc.lx /\ loc.cly = loc.ly
        /\ \A p \in Probes(cfg, Saved) :
              Pixel(cfg, Saved, p[1], p[2]).a = Opaque

(* C27: the header band is (wrapped header lines) x (header font size +    *)
(* line spacing) + padding high and the footer band (wrapped footer lines) *)
(* x (footer font size + line spacing) + padding, each text wrapped to     *)
(* (canvasWidth - 2*border - margin) / (its own font size * 0.5)           *)
(* characters; the text drawn in a band never extends beyond that band.    *)
C27_BandHeights ==
    loc.nw > 0 =>
        LET pw == loc.nw - 2 * loc.b - TextMargin
            Band(txt, fs) ==
                IF txt = "" THEN 0
                ELSE NumLines(txt, Max(1, (2 * pw) \div fs)) * (fs + LinePad)
                         + BandPad
            (* the bottom of the last line _draw_txt draws from y0 on *)
            Bottom(txt, fs, y0) ==
                y0 + (NumLines(txt, WrapWidth(cfg, loc.nw, loc.b)) - 1)
                         * (fs + LineGap) + fs
        IN /\ loc.hh = Band(cfg.header_text, cfg.header_font_size)
           /\ loc.fh = Band(cfg.footer_text, cfg.footer_font_size)
           /\ cfg.header_text # "" =>
                 Bottom(cfg.header_text, cfg.header_font_size, TextTop)
                     <= loc.py
           /\ cfg.footer_text # "" =>
                 Bottom(cfg.footer_text, cfg.footer_font_size,
                        loc.py + cfg.size + loc.b + TextTop) <= loc.nh

(* C28: with colour mode gradient and target foreground the dark modules   *)
(* are filled from the gradient bitmap whether or not transparent_bg is    *)
(* set: transparent_bg changes only the background layer, and the          *)
(* composite takes the foreground layer where the module is dark and the   *)
(* background layer elsewhere.                                             *)
C28_GradientForeground ==
    (img.stage = "qr" /\ cfg.color_mask = "gradient"
        /\ cfg.gradient_target = "foreground") =>
        \A p \in Probes(cfg, img) :
            Pixel(cfg, img, p[1], p[2])
                = IF Dark(cfg.data, p[1], p[2], cfg.size)
                  THEN Solid("gradient")
                  ELSE IF cfg.transparent_bg THEN Transparent
                  ELSE Solid(ToRgb(cfg.back_color, "#ffffff"))

(* C29: for every value of the shape / module_drawer option (a drawer name *)
(* in any letter case, an unknown name, or a missing value) generate_qr    *)
(* selects a drawer, square for unknown or missing values, uses it for     *)
(* data modules and eyes, and does not raise.                              *)
C29_DrawerSelected ==
    cfg.impl = "qrgen" =>
        /\ raisedAt # "resolve"
        /\ loc.nw > 0 =>
              /\ loc.drawer
                     = CASE cfg.shape = "Circle" -> "circle"
                         [] cfg.shape = "ROUNDED" -> "rounded"
                         [] OTHER -> "square"
              /\ loc.eye_drawer = loc.drawer

(* C16: in a render with border b > 0 and a non-transparent background     *)
(* every canvas pixel not covered by the rounded QR image, text ink or the *)
(* logo shows the border fill colour in the saved image.                   *)
C16_BorderColourShows ==
    (pc = "returned" /\ cfg.impl = "qrgen" /\ cfg.border > 0
        /\ ~cfg.transparent_bg) =>
        LET L == Layout(cfg)
        IN \A x \in ProbeXs(cfg), y \in ProbeYs(cfg) :
              ( /\ InRect(x, y, 0, 0, L.nw, L.nh)
                /\ ~InQrMask(cfg, x, y)
                /\ ~HeaderInk(cfg, x, y) /\ ~FooterInk(cfg, x, y)
                /\ ~(cfg.logo = "ok" /\ LogoCovers(cfg, x - L.lx, y - L.ly)) )
              => /\ x < Saved.w /\ y < Saved.h
                 /\ Pixel(cfg, Saved, x, y).c = ToRgb(BorderFill(cfg), "#ffffff")

----------------------------------------------------------------------------
(* The GUI generate handlers of src/qrgen/gui.py *)

GuiSize == 240
GuiHeaderFontSize == 16
GuiFooterFontSize == 14
PreviewPath == "output/preview.png"

(* The arguments gen_generic passes to generate_qr with the controls at    *)
(* their initial values (palette Classic, no gradient, no logo, no frame)  *)
GuiCfg(payload) ==
    [ impl |-> "qrgen", data |-> payload, dest |-> PreviewPath,
      size |-> GuiSize, border |-> 0, corner_radius |-> 0,
      qr_corner_radius |-> 0, border_corner_radius |-> 0,
      transparent_bg |-> FALSE, header_text |-> "", footer_text |-> "",
      header_font_size |-> GuiHeaderFontSize,
      footer_font_size |-> GuiFooterFontSize,
      header_align |-> "center", footer_align |-> "center",
      logo |-> "none", logo_clip |-> "none", logo_scale |-> LogoScalePct,
      shape |-> "square",
      color_mask |-> "solid",
      gradient_angle |-> "90", gradient_target |-> "background",
      gradient_start |-> "#000000", fill_color |-> "#000000",
      back_color |-> "#FFFFFF", border_color |-> "" ]

RenderIdle ==
    /\ pc = "idle" /\ cfg = GuiCfg(<<>>) /\ loc = NoLocals
    /\ img = NoImage /\ canvas = NoImage /\ logged = 0 /\ raisedAt = ""

(* The field values a request may carry *)
Fields ==
    [ Phones |->
          { <<>>, <<" ">>, <<"a", "b", "c">>, <<"1", "2", "3">>,
          <<"+", "1", "2", "3", " ", "4", "5", "6", "7">> },
      Emails |->
          { <<>>, <<"a", "b">>, <<"a", "@", "b">>, <<"a", "@", "b", ".", "c">> },
      Latitudes |->
          { <<>>, <<"x">>, <<"9", "0">>, <<"9", "0", ".", "5">>,
          <<"-", "2", "2", ".", "5">>, <<"-", "9", "1">> },
      Longitudes |->
          { <<>>, <<"1", "7", ".", "1">>, <<"1", "8", "0">>, <<"1", "8", "1">> },
      Notes |->
          { <<>>, <<"H", "i">> },
      Urls |->
          { <<>>, <<" ">>, <<"a", ".", "b">> },
      Ssids |->
          { <<>>, <<"n", "e", "t">> },
      Auths |->
          { <<>>, <<"w", "p", "a">>, <<"n", "o", "p", "a", "s", "s">> } ]

(* gen_generic, lines 357-359 and 403-463: the only check is that the      *)
(* stripped payload is not empty; generate_qr writes output/preview.png    *)
GenGeneric(payload0) ==
    LET payload == Strip(payload0)
        o == RenderOutcome(GuiCfg(payload))
    IN /\ IF payload = <<>>
          THEN /\ resp' = [img |-> "None", msg |-> <<>>,
                           err |-> "Error: payload is empty"]
               /\ rendered' = <<>>
               /\ UNCHANGED files
          ELSE /\ rendered' = <<payload>>
               /\ IF o.raised # "" \/ ~CanWrite(PreviewPath, dirs)
                  THEN /\ resp' = [img |-> "raised", msg |-> <<>>, err |-> ""]
                       /\ UNCHANGED files
                  ELSE /\ files' = [files EXCEPT ![PreviewPath] = o.image]
                       /\ resp' = [img |-> PreviewPath, msg |-> payload,
                                   err |-> ""]
       /\ UNCHANGED <<renderVars, files0, dirs, batchVars, concVars>>

(* The wrappers, lines 466-529: the payload builder, then gen_generic *)
GenUrl == \E url \in Fields.Urls :
    /\ req' = [handler |-> "gen_url", args |-> <<url>>]
    /\ GenGeneric(build_url(url))

GenText == \E text \in Fields.Notes \cup Fields.Urls :
    /\ req' = [handler |-> "gen_text", args |-> <<text>>]
    /\ GenGeneric(build_text(text))

GenMailto == \E to \in Fields.Emails, subject \in Fields.Notes, body \in Fields.Notes :
    /\ req' = [handler |-> "gen_mailto", args |-> <<to, subject, body>>]
    /\ GenGeneric(build_mailto(to, subject, body))

GenTel == \E phone \in Fields.Phones :
    /\ req' = [handler |-> "gen_tel", args |-> <<phone>>]
    /\ GenGeneric(build_tel(phone))

GenSms == \E phone \in Fields.Phones, msg \in Fields.Notes :
    /\ req' = [handler |-> "gen_sms", args |-> <<phone, msg>>]
    /\ GenGeneric(build_sms(phone, msg))

GenWifi == \E ssid \in Fields.Ssids, auth \in Fields.Auths, password \in Fields.Notes,
              hidden \in BOOLEAN :
    /\ req' = [handler |-> "gen_wifi",
               args |-> <<ssid, auth, password, hidden>>]
    /\ GenGeneric(build_wifi(ssid, auth, password, hidden))

GenGeo == \E lat \in Fields.Latitudes, lon \in Fields.Longitudes, label \in Fields.Notes :
    /\ req' = [handler |-> "gen_geo", args |-> <<lat, lon, label>>]
    /\ GenGeneric(build_geo(lat, lon, label))

(* gen_vcard, lines 59-273, with the fields EMAIL;TYPE=WORK, FN and        *)
(* TEL;TYPE=CELL of user_fields, in that order, and the others left empty  *)
VcardKeys ==
    [ EMAIL |-> <<"E", "M", "A", "I", "L", ";", "T", "Y", "P", "E", "=", "W", "O", "R", "K">>,
      FN |-> <<"F", "N">>,
      TEL |-> <<"T", "E", "L", ";", "T", "Y", "P", "E", "=", "C", "E", "L", "L">> ]

VcardErrors ==
    [ EMAIL |-> "Error: Invalid email format.",
      FN |-> "Error: Full Name is required.",
      TEL |-> "Error: Invalid phone number format." ]

(* lines 156-160: the message of the validator a filled field fails, or "" *)
FieldError(field, value) ==
    IF field = "FN" /\ ~validate_required(value) THEN VcardErrors.FN
    ELSE IF field = "EMAIL" /\ ~validate_email(value) THEN VcardErrors.EMAIL
    ELSE IF field = "TEL" /\ ~validate_phone(value) THEN VcardErrors.TEL
    ELSE ""

GenVcard ==
    \E email \in Fields.Emails, fn \in {<<>>, <<" ">>, <<"A">>},
       tel \in Fields.Phones :
        LET vals == <<<<"EMAIL", email>>, <<"FN", fn>>, <<"TEL", tel>>>>
            (* line 140: only the fields with a truthy value *)
            filled == SelectSeq(vals, LAMBDA p : p[2] # <<>>)
            user_data == [i \in 1..Len(filled) |->
                             <<VcardKeys[filled[i][1]], filled[i][2]>>]
            failing == SelectSeq(filled,
                                 LAMBDA p : FieldError(p[1], p[2]) # "")
            qr_content ==
                IF user_data # <<>> THEN build_vcard(user_data)
                ELSE <<"h", "t", "t", "p", "s", ":", "/", "/", "w",
                       "w", "w", ".", "y", "o", "u", "t", "u", "b",
                       "e", ".", "c", "o", "m", "/", "w", "a", "t",
                       "c", "h", "?", "v", "=", "d", "Q", "w", "4",
                       "w", "9", "W", "g", "X", "c", "Q">>
        IN /\ req' = [handler |-> "gen_vcard", args |-> <<email, fn, tel>>]
           /\ IF failing # <<>>
              THEN /\ resp' = [img |-> "None", msg |-> <<>>,
                               err |-> FieldError(failing[1][1], failing[1][2])]
                   /\ rendered' = <<>>
                   /\ UNCHANGED <<renderVars, files, files0, dirs, batchVars,
                                  concVars>>
              ELSE GenGeneric(qr_content)

InitGui ==
    /\ RenderIdle
    /\ files = [p \in Dests |-> NoFile]
    /\ files0 = files
    /\ dirs = {"output"}
    /\ req = NoRequest /\ resp = NoResponse /\ rendered = <<>>
    /\ BatchIdle /\ ConcIdle

NextGui ==
    \/ GenUrl \/ GenText \/ GenMailto \/ GenTel \/ GenSms \/ GenWifi
    \/ GenGeo \/ GenVcard

SpecGui == InitGui /\ [][NextGui]_vars

(* C30: the vCard handler enforces that Full Name is required: when FN is  *)
(* empty or blank while another field is filled it returns an error, the   *)
(* error 'Full Name is required.' unless another field fails first, with   *)
(* no image and without calling generate_qr; and for any filled field that *)
(* fails its validator it returns that field's error with no image.        *)
C30_FullNameRequired ==
    req.handler = "gen_vcard" =>
        LET email == req.args[1]
            fn == req.args[2]
            tel == req.args[3]
            errors ==
                (IF Strip(fn) = <<>> /\ (email # <<>> \/ tel # <<>>)
                 THEN {VcardErrors.FN} ELSE {})
                \cup (IF fn # <<>> /\ ~validate_required(fn)
                      THEN {VcardErrors.FN} ELSE {})
                \cup (IF email # <<>> /\ ~validate_email(email)
                      THEN {VcardErrors.EMAIL} ELSE {})
                \cup (IF tel # <<>> /\ ~validate_phone(tel)
                      THEN {VcardErrors.TEL} ELSE {})
        IN errors # {} =>
              /\ resp.img = "None"
              /\ resp.err \in errors
              /\ rendered = <<>>

(* whether the field values of a request are invalid for its format *)
InvalidRequest ==
    \/ req.handler = "gen_geo" /\ ~validate_geo(req.args[1], req.args[2])
    \/ req.handler \in {"gen_tel", "gen_sms"} /\ ~validate_phone(req.args[1])
    \/ req.handler = "gen_mailto" /\ ~validate_email(req.args[1])
    \/ req.handler \in {"gen_url", "gen_text"} /\ Strip(req.args[1]) = <<>>

(* C7: every generate handler rejects an empty payload, out-of-range       *)
(* coordinates and a malformed phone number or e-mail address with an      *)
(* error message, no image and no call of generate_qr.                     *)
C7_InvalidInputRejected ==
    InvalidRequest =>
        /\ resp.img = "None"
        /\ resp.err # ""
        /\ rendered = <<>>

----------------------------------------------------------------------------
(* _download_batch of src/qrgen/gui.py, lines 1525-1675                    *)

MaxRows == 2
BatchSize == 512

ZipPath == "output/qr_batch.zip"
NoCsv == [name |-> "", lines |-> <<>>]

(* The rows csv.reader may yield: a sequence of columns each, <<>> for a   *)
(* blank line                                                              *)
CsvRows ==
    { <<<<"F", "o", "r", "m", "a", "t">>, <<"D", "a", "t", "a">>>>,
      <<<<"t", "e", "x", "t">>, <<"H", "i">>>>,
      <<<<" ", "T", "E", "X", "T", " ">>, <<" ", "x", " ">>>>,
      <<<<"t", "e", "x", "t">>, <<Block>>>>,
      <<<<"u", "r", "l">>, <<"a", ".", "b">>>>,
      <<<<"w", "i", "f", "i">>, <<"n", "e", "t", "|", "w", "p", "a", "|", "p", "w", "|", "T", "r", "u", "e">>>>,
      <<<<"s", "m", "s">>, <<"1", "|", "H", "i">>>>,
      <<<<"t", "e", "l">>, <<" ">>>>,
      <<<<"m", "a", "i", "l", "t", "o">>, <<"a", "@", "b", ".", "c", "|", "s">>>>,
      <<<<"g", "e", "o">>, <<"1">>>>,
      <<<<"g", "e", "o">>, <<"|", "1", "7">>>>,
      <<<<"g", "e", "o">>, <<"1", "|", "2">>>>,
      <<<<"e", "v", "e", "n", "t">>, <<"E">>>>,
      <<<<"e", "v", "e", "n", "t">>, <<"E", "|", "2">>>>,
      <<<<"p", "a", "y", "m", "e", "n", "t">>, <<"x", "|", "1">>>>,
      <<<<"m", "e", "c", "a", "r", "d">>, <<"N", "|", "1">>>>,
      <<<<"v", "c", "a", "r", "d">>, <<"F", "N", ":", " ", "A", "|", "x", "|", " ", "T", "Z", " ", ":">>>>,
      <<<<"x", "y", "z">>, <<"a", "|", "b">>>>,
      <<<<"o", "n", "l", "y">>>>,
      <<>> }

RECURSIVE SeqsUpTo(_, _)
SeqsUpTo(S, n) ==
    IF n = 0 THEN {<<>>}
    ELSE LET shorter == SeqsUpTo(S, n - 1)
         IN shorter \cup {Append(s, e) : s \in shorter, e \in S}

CsvFiles ==
    {NoCsv} \cup {[name |-> "batch.csv", lines |-> l] :
                     l \in SeqsUpTo(CsvRows, MaxRows)}

(* the names qr_<i>.png that may exist in output/tmp_batch *)
TmpNames == 1..(MaxRows + 1)
EmptyDir == [i \in TmpNames |-> NoFile]
FilesIn(dir) == {i \in TmpNames : dir[i].stage # "absent"}

Clock == {7, 12}

SampleRows ==
    << <<<<"t", "e", "x", "t">>, <<"S", "a", "m", "p", "l", "e", " ", "Q", "R", " ", "1">>>>,
       <<<<"t", "e", "x", "t">>, <<"S", "a", "m", "p", "l", "e", " ", "Q", "R", " ", "2">>>> >>

(* lines 1555-1569: the rows of the file, the template's header skipped *)
ReadRows(csv) ==
    LET lines == csv.lines
        IsRow(r) == r # <<>>
        header == IF lines = <<>> THEN <<>> ELSE Head(lines)
        first == IF header = <<>> THEN <<>>
                 ELSE IF Lower(header[1]) = <<"f", "o", "r", "m", "a", "t">>
                      THEN <<>> ELSE <<header>>
        read == IF csv.name = "" \/ lines = <<>> THEN <<>>
                ELSE first \o SelectSeq(Tail(lines), IsRow)
    IN IF read = <<>> THEN SampleRows ELSE read

(* generate_qr(payload, dest=fname, size=512, fill_color="black",          *)
(* back_color="white"), lines 1652-1658                                    *)
BatchCfg(payload) ==
    [ impl |-> "qrgen", data |-> payload, dest |-> "output/tmp_batch/qr.png",
      size |-> BatchSize, border |-> 0, corner_radius |-> 0,
      qr_corner_radius |-> NoRadius, border_corner_radius |-> NoRadius,
      transparent_bg |-> FALSE, header_text |-> "", footer_text |-> "",
      header_font_size |-> DefaultHeaderFontSize,
      footer_font_size |-> DefaultFooterFontSize,
      header_align |-> "center", footer_align |-> "center",
      logo |-> "none", logo_clip |-> "none", logo_scale |-> LogoScalePct,
      shape |-> "square",
      color_mask |-> "solid",
      gradient_angle |-> "90", gradient_target |-> "background",
      gradient_start |-> "#000000", fill_color |-> "black",
      back_color |-> "white", border_color |-> "" ]

(* Image.new("RGBA", (512, 512), (255, 255, 255, 255)), lines 1663-1665 *)
Placeholder ==
    [w |-> BatchSize, h |-> BatchSize, stage |-> "placeholder", data |-> <<>>]

(* lines 1572-1646: the payload of one row; IndexError and every other     *)
(* exception of a builder leave the raw data as the payload                *)
SplitOnce(p) ==
    LET k == CHOOSE i \in 1..Len(p) :
                 p[i] = ":" /\ \A j \in 1..(i - 1) : p[j] # ":"
    IN <<Strip(SubSeq(p, 1, k - 1)), Strip(SubSeq(p, k + 1, Len(p)))>>

HasColon(p) == \E i \in 1..Len(p) : p[i] = ":"

BuildRow(r, now) ==
    IF Len(r) >= 2
    THEN LET data == r[2]
             raw == Split(data, "|")
             parts == [i \in 1..Len(raw) |-> Strip(raw[i])]
             fmt == Lower(Strip(r[1]))
             Part(k) == IF Len(parts) >= k THEN parts[k] ELSE <<>>
         IN CASE fmt = <<"u", "r", "l">> -> build_url(parts[1])
              [] fmt = <<"t", "e", "x", "t">> -> build_text(parts[1])
              [] fmt = <<"w", "i", "f", "i">> ->
                    build_wifi(parts[1],
                               IF Len(parts) > 1 THEN parts[2] ELSE Lit.WPA,
                               Part(3),
                               Len(parts) > 3 /\ Lower(parts[4]) = <<"t", "r", "u", "e">>)
              [] fmt = <<"s", "m", "s">> -> build_sms(parts[1], Part(2))
              [] fmt = <<"t", "e", "l">> -> build_tel(parts[1])
              [] fmt = <<"m", "a", "i", "l", "t", "o">> -> build_mailto(parts[1], Part(2), Part(3))
              [] fmt = <<"g", "e", "o">> ->
                    IF Len(parts) < 2 THEN data
                    ELSE build_geo(parts[1], parts[2], Part(3))
              [] fmt = <<"e", "v", "e", "n", "t">> ->
                    IF Len(parts) < 2 THEN data
                    ELSE build_event(parts[1], parts[2], Part(3), Part(4),
                                     Part(5), now)
              [] fmt = <<"p", "a", "y", "m", "e", "n", "t">> -> build_payment(parts[1], Part(2), Part(3))
              [] fmt = <<"m", "e", "c", "a", "r", "d">> ->
                    build_mecard(parts[1], Part(2), Part(3), Part(4), Part(5))
              [] fmt = <<"v", "c", "a", "r", "d">> ->
                    build_vcard([i \in 1..Len(SelectSeq(parts, HasColon)) |->
                                    SplitOnce(SelectSeq(parts, HasColon)[i])])
              [] OTHER -> data
    ELSE r[1]

(* the file a row leaves in output/tmp_batch, lines 1651-1665 *)
RowImage(payload) ==
    LET o == RenderOutcome(BatchCfg(payload))
    IN IF o.raised # "" THEN Placeholder ELSE o.image

(* lines 1528-1530: the call, with the uploaded file or none *)
BatchCall ==
    /\ bpc = "idle"
    /\ \E csv \in CsvFiles :
          req' = [handler |-> "_download_batch", args |-> <<csv>>]
    /\ bpc' = "setup"
    /\ dirs' = dirs \cup {"output"}
    /\ UNCHANGED <<renderVars, files, files0, resp, rendered, rows, bi, tmp,
                   zip, bret, concVars>>

(* lines 1547-1553: shutil.rmtree(tmp_dir), os.makedirs(tmp_dir) *)
BatchSetup ==
    /\ bpc = "setup"
    /\ tmp' = EmptyDir
    /\ dirs' = dirs \cup {"output/tmp_batch"}
    /\ bpc' = "read"
    /\ UNCHANGED <<renderVars, files, files0, guiVars, rows, bi, zip, bret,
                   concVars>>

(* lines 1555-1569 *)
BatchRead ==
    /\ bpc = "read"
    /\ rows' = ReadRows(req.args[1])
    /\ bi' = 1
    /\ bpc' = "rows"
    /\ UNCHANGED <<renderVars, fsVars, guiVars, tmp, zip, bret, concVars>>

(* One turn of the loop of lines 1571-1665 without the handler of lines    *)
(* 1659-1665: the exception of generate_qr reaches the handler of line     *)
(* 1672 and the call returns None                                          *)
BatchRowAborting ==
    /\ bpc = "rows" /\ bi <= Len(rows)
    /\ \E now \in Clock :
          LET payload == BuildRow(rows[bi], now)
              o == RenderOutcome(BatchCfg(payload))
          IN /\ rendered' = Append(rendered, payload)
             /\ IF o.raised # ""
                THEN /\ bpc' = "done" /\ bret' = "None"
                     /\ UNCHANGED <<tmp, bi>>
                ELSE /\ tmp' = [tmp EXCEPT ![bi] = o.image]
                     /\ bi' = bi + 1
                     /\ UNCHANGED <<bpc, bret>>
    /\ UNCHANGED <<renderVars, fsVars, req, resp, rows, zip, concVars>>

(* One turn of the loop of lines 1571-1665: row i becomes qr_<i>.png *)
BatchRow ==
    /\ bpc = "rows" /\ bi <= Len(rows)
    /\ \E now \in Clock :
          LET payload == BuildRow(rows[bi], now)
          IN /\ rendered' = Append(rendered, payload)
             /\ tmp' = [tmp EXCEPT ![bi] = RowImage(payload)]
    /\ bi' = bi + 1
    /\ UNCHANGED <<renderVars, fsVars, req, resp, rows, bpc, zip, bret,
                   concVars>>

(* lines 1667-1671: every file of tmp_dir goes into the archive *)
BatchZip ==
    /\ bpc = "rows" /\ bi > Len(rows)
    /\ zip' = [i \in FilesIn(tmp) |-> tmp[i]]
    /\ bret' = ZipPath
    /\ bpc' = "done"
    /\ UNCHANGED <<renderVars, fsVars, guiVars, rows, bi, tmp, concVars>>

(* output/tmp_batch may hold the files of an earlier batch *)
InitBatch ==
    /\ RenderIdle
    /\ files = [p \in Dests |-> NoFile]
    /\ files0 = files
    /\ dirs \in {{}, {"output"}, {"output", "output/tmp_batch"}}
    /\ GuiIdle /\ ConcIdle
    /\ rows = <<>> /\ bpc = "idle" /\ bi = 0
    /\ tmp \in {EmptyDir} \cup
               (IF "output/tmp_batch" \in dirs
                THEN {[i \in TmpNames |-> OldFile]} ELSE {})
    /\ zip \in {<<>>, <<OldFile>>}
    /\ bret = ""

NextBatch == BatchCall \/ BatchSetup \/ BatchRead \/ BatchRow \/ BatchZip

SpecBatch == InitBatch /\ [][NextBatch]_vars

----------------------------------------------------------------------------
(* Properties of _download_batch *)

(* the payload generate_qr was called with for row i *)
RowPayload(i) == rendered[i]

(* C8: the rows are processed in order and no row's failure aborts the     *)
(* batch: for n rows exactly the n files qr_1.png .. qr_n.png are          *)
(* produced, a placeholder where rendering failed, the returned archive    *)
(* holds exactly those files, and with no CSV the rows are the two sample  *)
(* rows.                                                                   *)
C8_BatchNeverAborted ==
    /\ bpc = "rows" =>
          /\ Len(rendered) = bi - 1
          /\ FilesIn(tmp) = 1..(bi - 1)
    /\ bpc = "done" =>
          /\ bret = ZipPath
          /\ Len(rendered) = Len(rows)
          /\ FilesIn(tmp) = 1..Len(rows)
          /\ DOMAIN zip = 1..Len(rows)
          /\ \A i \in 1..Len(rows) :
                /\ zip[i] = tmp[i]
                /\ IF EncoderFits(RowPayload(i))
                   THEN /\ zip[i].stage = "outer"
                        /\ zip[i].data = RowPayload(i)
                        /\ zip[i].w = BatchSize /\ zip[i].h = BatchSize
                   ELSE zip[i] = Placeholder
          /\ (req.args[1] = NoCsv =>
                 /\ rows = SampleRows
                 /\ \A i \in 1..2 : RowPayload(i) = rows[i][2])

(* a finished batch whose first row could not be rendered and whose second *)
(* row was rendered after it                                               *)
C8_Witness ==
    /\ bpc = "done" /\ bret = ZipPath
    /\ Len(rows) = 2
    /\ zip[1] = Placeholder
    /\ zip[2].stage = "outer"

(* a row that is malformed for its format tag *)
KnownTags ==
    {<<"u", "r", "l">>,
     <<"t", "e", "x", "t">>,
     <<"w", "i", "f", "i">>,
     <<"s", "m", "s">>,
     <<"t", "e", "l">>,
     <<"m", "a", "i", "l", "t", "o">>,
     <<"g", "e", "o">>,
     <<"e", "v", "e", "n", "t">>,
     <<"p", "a", "y", "m", "e", "n", "t">>,
     <<"m", "e", "c", "a", "r", "d">>,
     <<"v", "c", "a", "r", "d">>}

Required(fmt) ==
    IF fmt \in {<<"g", "e", "o">>, <<"e", "v", "e", "n", "t">>} THEN 2 ELSE 1

Malformed(r) ==
    \/ Len(r) = 1
    \/ /\ Len(r) >= 2
       /\ LET fmt == Lower(Strip(r[1]))
              raw == Split(r[2], "|")
          IN \/ fmt \notin KnownTags
             \/ /\ fmt # <<"v", "c", "a", "r", "d">>
                /\ \/ Len(raw) < Required(fmt)
                   \/ \E k \in 1..Required(fmt) : Strip(raw[k]) = <<>>

RawData(r) == IF Len(r) = 1 THEN r[1] ELSE r[2]

(* C9: a row that is malformed for its format tag is rendered with its     *)
(* raw data string as the literal payload.                                 *)
C9_MalformedRowIsLiteral ==
    \A i \in 1..Len(rendered) :
        (req.handler = "_download_batch" /\ Malformed(rows[i])) =>
            RowPayload(i) = RawData(rows[i])

----------------------------------------------------------------------------
(* Two generate requests of the server in flight at once: gen_generic      *)
(* (src/qrgen/gui.py, lines 276-463) calling generate_qr with its default  *)
(* dest (src/qrgen/qr.py, line 47)                                         *)

Requests == {1, 2}

ConcPayloads == { <<"A">>, <<"B">>, <<"H", "i">>, <<"a", ".", "b">> }

(* both requests have been received, with different payloads *)
InitConc ==
    /\ RenderIdle /\ GuiIdle /\ BatchIdle
    /\ files = [p \in Dests |-> NoFile]
    /\ files0 = files
    /\ dirs = {"output"}
    /\ \E pa \in ConcPayloads : \E pb \in ConcPayloads \ {pa} :
          procs = [r \in Requests |->
                      [payload |-> IF r = 1 THEN pa ELSE pb,
                       pc |-> "called", image |-> NoImage, ret |-> ""]]

(* generate_qr, lines 135-303: the image is composed in memory *)
ConcRender(r) ==
    /\ procs[r].pc = "called"
    /\ procs' = [procs EXCEPT
                   ![r].image = RenderOutcome(GuiCfg(procs[r].payload)).image,
                   ![r].pc = "rendered"]
    /\ UNCHANGED <<renderVars, fsVars, guiVars, batchVars>>

(* generate_qr, line 307: img.save(dest) *)
ConcSave(r) ==
    /\ procs[r].pc = "rendered"
    /\ files' = [files EXCEPT ![PreviewPath] = procs[r].image]
    /\ procs' = [procs EXCEPT ![r].pc = "saved"]
    /\ UNCHANGED <<renderVars, files0, dirs, guiVars, batchVars>>

(* gen_generic, line 463: return "output/preview.png", payload *)
ConcReturn(r) ==
    /\ procs[r].pc = "saved"
    /\ procs' = [procs EXCEPT ![r].ret = PreviewPath, ![r].pc = "returned"]
    /\ UNCHANGED <<renderVars, fsVars, guiVars, batchVars>>

NextConc ==
    \E r \in Requests : ConcRender(r) \/ ConcSave(r) \/ ConcReturn(r)

SpecConc == InitConc /\ [][NextConc]_vars

(* C10: render requests share no mutable state: under every interleaving   *)
(* of two requests with different payloads, the path a request returned    *)
(* holds, when it returns and afterwards, the image of its own payload.    *)
C10_RequestsAreIndependent ==
    \A r \in Requests :
        procs[r].pc = "returned" =>
            /\ files[procs[r].ret].stage \notin {"absent", "old"}
            /\ files[procs[r].ret].data = procs[r].payload

----------------------------------------------------------------------------
(* The pure functions of src/qrgen/payloads.py, src/qrgen/styles.py and    *)
(* src/qrgen/qr.py, each called once on arguments drawn from small sets    *)

MaxPairs == 2

LibIdle ==
    /\ RenderIdle /\ BatchIdle /\ ConcIdle
    /\ files = [p \in Dests |-> NoFile] /\ files0 = files
    /\ dirs = {"output"}

InitLib == LibIdle /\ GuiIdle

(* the keys and values a vCard data mapping may hold *)
VcardData ==
    SeqsUpTo({<<"F", "N">>, <<"N", "O", "T", "E">>, <<"B", "E", "G", "I", "N">>, <<"T", "E", "L", ";", "T", "Y", "P", "E", "=", "C", "E", "L", "L">>, <<"X", "-", "A">>}
             \X {<<>>, <<" ">>, <<"A">>, <<"a", "\n", "X", ":", "1">>},
             MaxPairs)

(* build_vcard(data), lines 40-58 *)
CallBuildVcard ==
    /\ req = NoRequest
    /\ \E data \in VcardData :
          /\ req' = [handler |-> "build_vcard", args |-> <<data>>]
          /\ resp' = [img |-> "", msg |-> build_vcard(data), err |-> ""]
    /\ UNCHANGED <<renderVars, fsVars, rendered, batchVars, concVars>>

(* C13: build_vcard emits its lines in template order, first BEGIN:VCARD   *)
(* and last END:VCARD, always with the template's BEGIN, VERSION and END,  *)
(* an optional field if and only if data holds a value for it that is not  *)
(* empty after stripping, and never a key that is not in the template.     *)
C13_VcardLines ==
    req.handler = "build_vcard" =>
        LET data == req.args[1]
            T == DEFAULT_VCARD_FIELDS
            lines == Split(resp.msg, "\n")
            KeyOf(l) == IF HasColon(l) THEN Split(l, ":")[1] ELSE l
            Index(k) == IF \E i \in 1..Len(T) : T[i][1] = k
                        THEN CHOOSE i \in 1..Len(T) : T[i][1] = k ELSE 0
            Line(i) == T[i][1] \o <<":">> \o
                       (IF T[i][1] \in Mandatory THEN T[i][2]
                        ELSE DictGet(data, T[i][1]))
            Emitted(i) == \E j \in 1..Len(lines) : KeyOf(lines[j]) = T[i][1]
        IN /\ lines[1] = T[1][1] \o <<":">> \o T[1][2]
           /\ lines[Len(lines)] = T[Len(T)][1] \o <<":">> \o T[Len(T)][2]
           /\ \A j \in 1..Len(lines) : Index(KeyOf(lines[j])) > 0
           /\ \A j \in 1..(Len(lines) - 1) :
                 Index(KeyOf(lines[j])) < Index(KeyOf(lines[j + 1]))
           /\ \A i \in 1..Len(T) :
                 /\ Emitted(i) <=>
                       \/ T[i][1] \in Mandatory
                       \/ /\ HasKey(data, T[i][1])
                          /\ Strip(DictGet(data, T[i][1])) # <<>>
                 /\ Emitted(i) => \E j \in 1..Len(lines) : lines[j] = Line(i)

----------------------------------------------------------------------------
(* Colour resolution, src/qrgen/qr.py lines 7-43 *)

None == <<"None">>
ValueError == <<"ValueError">>

HexDigits == <<"0", "1", "2", "3", "4", "5", "6", "7", "8", "9",
               "a", "b", "c", "d", "e", "f">>
IsHexDigit(ch) == \E i \in 1..Len(HexDigits) : HexDigits[i] = LowerChar(ch)
HexVal(ch) == (CHOOSE i \in 1..Len(HexDigits) : HexDigits[i] = LowerChar(ch)) - 1

(* the names _normalize_color lower-cases itself, line 21 *)
BasicNames ==
    {
      <<"w", "h", "i", "t", "e">>,
      <<"b", "l", "a", "c", "k">>,
      <<"r", "e", "d">>,
      <<"g", "r", "e", "e", "n">>,
      <<"b", "l", "u", "e">>,
      <<"y", "e", "l", "l", "o", "w">>,
      <<"c", "y", "a", "n">>,
      <<"m", "a", "g", "e", "n", "t", "a">>,
      <<"t", "r", "a", "n", "s", "p", "a", "r", "e", "n", "t">> }

(* _normalize_color, lines 7-28 *)
normalize_color(color) ==
    IF color = None THEN None
    ELSE LET s == Strip(color)
         IN IF s = <<>> THEN None
            ELSE IF s[1] = "#" THEN s
            ELSE IF Lower(s) \in BasicNames THEN Lower(s)
            ELSE IF Len(s) \in {3, 6} /\ All(s, IsHexDigit) THEN <<"#">> \o s
            ELSE s

(* PIL.ImageColor.colormap, the entries the inputs name *)
colormap ==
    [
      white |-> <<"#", "f", "f", "f", "f", "f", "f">>,
      black |-> <<"#", "0", "0", "0", "0", "0", "0">>,
      red |-> <<"#", "f", "f", "0", "0", "0", "0">>,
      green |-> <<"#", "0", "0", "8", "0", "0", "0">>,
      blue |-> <<"#", "0", "0", "0", "0", "f", "f">>,
      yellow |-> <<"#", "f", "f", "f", "f", "0", "0">>,
      cyan |-> <<"#", "0", "0", "f", "f", "f", "f">>,
      magenta |-> <<"#", "f", "f", "0", "0", "f", "f">>,
      orange |-> <<"#", "f", "f", "a", "5", "0", "0">> ]

(* the spelling of a colormap key *)
NameOf ==
    [n \in DOMAIN colormap |->
        CASE n = "white" -> <<"w", "h", "i", "t", "e">>
          [] n = "black" -> <<"b", "l", "a", "c", "k">>
          [] n = "red" -> <<"r", "e", "d">>
          [] n = "green" -> <<"g", "r", "e", "e", "n">>
          [] n = "blue" -> <<"b", "l", "u", "e">>
          [] n = "yellow" -> <<"y", "e", "l", "l", "o", "w">>
          [] n = "cyan" -> <<"c", "y", "a", "n">>
          [] n = "magenta" -> <<"m", "a", "g", "e", "n", "t", "a">>
          [] n = "orange" -> <<"o", "r", "a", "n", "g", "e">>]

(* the value of "#rgb", "#rgba", "#rrggbb" or "#rrggbbaa" *)
HexColour(s) ==
    LET h == Tail(s)
    IN IF Len(h) \in {3, 4}
       THEN [i \in 1..Len(h) |-> HexVal(h[i]) * 17]
       ELSE [i \in 1..(Len(h) \div 2) |->
                HexVal(h[2 * i - 1]) * 16 + HexVal(h[2 * i])]

(* PIL.ImageColor.getrgb, called at line 40: a colormap name, a '#' hex    *)
(* string, or rgb(d,d,d) / rgba(d,d,d,d) whose channels are runs of        *)
(* decimal digits taken as they are; anything else is a ValueError         *)
getrgb(color) ==
    LET s == Lower(color)
        Call(prefix, n) ==
            /\ StartsWith(s, prefix) /\ s[Len(s)] = ")"
            /\ LET parts == Split(SubSeq(s, Len(prefix) + 1, Len(s) - 1), ",")
               IN /\ Len(parts) = n
                  /\ \A i \in 1..n : /\ Strip(parts[i]) # <<>>
                                     /\ All(Strip(parts[i]), IsDigit)
        Channels(prefix) ==
            LET parts == Split(SubSeq(s, Len(prefix) + 1, Len(s) - 1), ",")
            IN [i \in 1..Len(parts) |-> ToInt(Strip(parts[i]))]
    IN IF \E n \in DOMAIN colormap : NameOf[n] = s
       THEN HexColour(colormap[CHOOSE n \in DOMAIN colormap : NameOf[n] = s])
       ELSE IF s[1] = "#" /\ Len(s) \in {4, 5, 7, 9} /\ All(Tail(s), IsHexDigit)
       THEN HexColour(s)
       ELSE IF Call(<<"r", "g", "b", "(">>, 3)
       THEN Channels(<<"r", "g", "b", "(">>)
       ELSE IF Call(<<"r", "g", "b", "a", "(">>, 4)
       THEN Channels(<<"r", "g", "b", "a", "(">>)
       ELSE ValueError

(* _to_rgb_tuple, lines 30-43 *)
to_rgb_tuple(color, default) ==
    LET normalized == normalize_color(color)
    IN IF normalized = None THEN default
       ELSE IF getrgb(normalized) = ValueError THEN default
       ELSE getrgb(normalized)

----------------------------------------------------------------------------
(* _to_rgb_tuple as a library call *)

ColourInputs ==
    { [token |-> None, kind |-> "none"],
      [token |-> <<>>,
       kind |-> "empty"],
      [token |-> <<" ", " ">>,
       kind |-> "empty"],
      [token |-> <<"#", "f", "f", "0", "0", "0", "0">>,
       kind |-> "hex"],
      [token |-> <<"f", "f", "f">>,
       kind |-> "hex"],
      [token |-> <<"1", "F", "A", "2", "D", "5">>,
       kind |-> "hex"],
      [token |-> <<"r", "e", "d">>,
       kind |-> "named"],
      [token |-> <<"W", "h", "i", "t", "e">>,
       kind |-> "named"],
      [token |-> <<"o", "r", "a", "n", "g", "e">>,
       kind |-> "named"],
      [token |-> <<"r", "g", "b", "(", "3", "1", ",", " ", "1", "6", "2", ",", " ", "2", "1", "3", ")">>,
       kind |-> "rgb"],
      [token |-> <<"r", "g", "b", "a", "(", "3", "1", ",", "1", "6", "2", ",", "2", "1", "3", ",", "1", ")">>,
       kind |-> "rgb"],
      [token |-> <<"r", "g", "b", "a", "(", "3", "1", ".", "2", ",", " ", "1", "6", "2", ".", "6", ",", " ", "2", "1", "3", ".", "7", ",", " ", "1", ")">>,
       kind |-> "rgb"],
      [token |-> <<"n", "o", "t", "a", "c", "o", "l", "o", "r">>,
       kind |-> "unrecognised"],
      [token |-> <<"#", "r", "e", "d">>,
       kind |-> "unrecognised"],
      [token |-> <<"#", "1", "2">>,
       kind |-> "unrecognised"] }

Defaults == {<<1, 2, 3>>, <<254, 253, 252>>}

CallToRgbTuple ==
    /\ req = NoRequest
    /\ \E in \in ColourInputs, default \in Defaults :
          /\ req' = [handler |-> "_to_rgb_tuple",
                     args |-> <<in.token, default, in.kind>>]
          /\ resp' = [img |-> "", msg |-> to_rgb_tuple(in.token, default),
                      err |-> ""]
    /\ UNCHANGED <<renderVars, fsVars, rendered, batchVars, concVars>>

(* C15: _to_rgb_tuple never raises; it returns an RGB or RGBA tuple with   *)
(* every channel in 0..255, and it returns the caller's default exactly    *)
(* when the token is None, empty or unrecognised.                          *)
C15_ToRgbTupleTotal ==
    req.handler = "_to_rgb_tuple" =>
        /\ resp.err = ""
        /\ Len(resp.msg) \in {3, 4}
        /\ \A i \in 1..Len(resp.msg) : resp.msg[i] \in 0..255
        /\ resp.msg = req.args[2]
              <=> req.args[3] \in {"none", "empty", "unrecognised"}

----------------------------------------------------------------------------
(* src/qrgen/styles.py *)

(* PALETTES, lines 7-18 ("Brand Blue" and "Warm Sunset" are written with   *)
(* an underscore)                                                          *)
PALETTES ==
    [
      Classic |->
          <<<<"#", "0", "0", "0", "0", "0", "0">>,
            <<"#", "F", "F", "F", "F", "F", "F">>>>,
      Brand_Blue |->
          <<<<"#", "1", "F", "A", "2", "D", "5">>,
            <<"#", "F", "F", "F", "F", "F", "F">>>>,
      Warm_Sunset |->
          <<<<"#", "F", "F", "6", "B", "6", "B">>,
            <<"#", "F", "F", "F", "1", "E", "6">>>>,
      Forest |->
          <<<<"#", "0", "B", "8", "4", "5", "7">>,
            <<"#", "E", "8", "F", "6", "E", "F">>>>,
      Violet |->
          <<<<"#", "6", "A", "0", "D", "A", "D">>,
            <<"#", "F", "5", "E", "9", "F", "F">>>>,
      Slate |->
          <<<<"#", "0", "F", "1", "7", "2", "A">>,
            <<"#", "E", "6", "E", "E", "F", "6">>>>,
      Nord |->
          <<<<"#", "2", "E", "3", "4", "4", "0">>,
            <<"#", "D", "8", "D", "E", "E", "9">>>>,
      Retro |->
          <<<<"#", "F", "F", "1", "4", "9", "3">>,
            <<"#", "0", "0", "B", "F", "F", "F">>>>,
      Sunset |->
          <<<<"#", "F", "F", "4", "E", "5", "0">>,
            <<"#", "F", "9", "D", "4", "2", "3">>>>,
      Ocean |->
          <<<<"#", "1", "C", "B", "5", "E", "0">>,
            <<"#", "0", "0", "0", "0", "4", "6">>>> ]

(* resolve_palette, lines 21-37; None is the empty name / empty colour *)
resolve_palette(palette, custom_fg, custom_bg) ==
    LET Prefixed(v) == IF v[1] # "#" /\ Len(v) \in {3, 6}
                       THEN <<"#">> \o v ELSE v
        fg == IF custom_fg # <<>> THEN custom_fg ELSE <<"#", "0", "0", "0", "0", "0", "0">>
        bg == IF custom_bg # <<>> THEN custom_bg ELSE <<"#", "F", "F", "F", "F", "F", "F">>
    IN IF palette # "" /\ palette # "Custom" /\ palette \in DOMAIN PALETTES
       THEN PALETTES[palette]
       ELSE <<Prefixed(fg), Prefixed(bg)>>

PaletteNames == DOMAIN PALETTES \cup {"", "Custom", "Neon"}

ColourTokens ==
    { <<>>, <<"#", "1", "2", "3">>, <<"f", "f", "f">>, <<"1", "F", "A", "2", "D", "5">>,
      <<"r", "e", "d">>, <<"y", "e", "l", "l", "o", "w">>, <<"b", "l", "a", "c", "k">>,
      <<"#", "F", "F", "F", "F", "F", "F">> }

CallResolvePalette ==
    /\ req = NoRequest
    /\ \E name \in PaletteNames, fg \in ColourTokens, bg \in ColourTokens :
          /\ req' = [handler |-> "resolve_palette", args |-> <<name, fg, bg>>]
          /\ resp' = [img |-> "", msg |-> resolve_palette(name, fg, bg),
                      err |-> ""]
    /\ UNCHANGED <<renderVars, fsVars, rendered, batchVars, concVars>>

(* C14: for a name of the table resolve_palette returns the table's pair   *)
(* whatever fg and bg are; for "Custom", an unknown name or no name it     *)
(* returns the caller's fg and bg (#000000 / #FFFFFF when absent), altered *)
(* only by prefixing '#' to a 3- or 6-digit hex string lacking it.         *)
C14_ResolvePalette ==
    req.handler = "resolve_palette" =>
        LET name == req.args[1]
            IsHex(v) == All(v, IsHexDigit)
            Fixed(v) == IF Len(v) \in {3, 6} /\ IsHex(v)
                        THEN <<"#">> \o v ELSE v
            Given(v, d) == IF v = <<>> THEN d ELSE v
        IN IF name \in DOMAIN PALETTES
           THEN resp.msg = PALETTES[name]
           ELSE resp.msg = <<Fixed(Given(req.args[2], <<"#", "0", "0", "0", "0", "0", "0">>)),
                             Fixed(Given(req.args[3], <<"#", "F", "F", "F", "F", "F", "F">>))>>

----------------------------------------------------------------------------
(* The payload builders of src/qrgen/payloads.py as library calls *)

BuilderArgs ==
    [ build_url |-> {<<u>> : u \in Fields.Urls},
      build_text |-> {<<n>> : n \in Fields.Notes},
      build_mailto |-> Fields.Emails \X Fields.Notes \X Fields.Notes,
      build_tel |-> {<<p>> : p \in Fields.Phones},
      build_sms |-> Fields.Phones \X Fields.Notes,
      build_wifi |-> Fields.Ssids \X Fields.Auths \X Fields.Notes \X BOOLEAN,
      build_geo |-> Fields.Latitudes \X Fields.Longitudes \X Fields.Notes,
      build_event |-> Fields.Notes \X Fields.Notes \X Fields.Notes
                          \X Fields.Notes \X Fields.Notes,
      build_payment |-> Fields.Phones \X Fields.Notes \X Fields.Notes,
      build_mecard |-> Fields.Notes \X Fields.Notes \X Fields.Notes
                           \X Fields.Notes \X Fields.Notes,
      build_vcard |-> {<<d>> : d \in VcardData} ]

(* the builder called with the arguments a when the clock reads `now` *)
Build(builder, a, now) ==
    CASE builder = "build_url" -> build_url(a[1])
      [] builder = "build_text" -> build_text(a[1])
      [] builder = "build_mailto" -> build_mailto(a[1], a[2], a[3])
      [] builder = "build_tel" -> build_tel(a[1])
      [] builder = "build_sms" -> build_sms(a[1], a[2])
      [] builder = "build_wifi" -> build_wifi(a[1], a[2], a[3], a[4])
      [] builder = "build_geo" -> build_geo(a[1], a[2], a[3])
      [] builder = "build_event" ->
             build_event(a[1], a[2], a[3], a[4], a[5], now)
      [] builder = "build_payment" -> build_payment(a[1], a[2], a[3])
      [] builder = "build_mecard" ->
             build_mecard(a[1], a[2], a[3], a[4], a[5])
      [] builder = "build_vcard" -> build_vcard(a[1])

CallBuilder ==
    /\ req = NoRequest
    /\ \E builder \in DOMAIN BuilderArgs :
          \E a \in BuilderArgs[builder], now \in Clock :
              /\ req' = [handler |-> "builder", args |-> <<builder, a>>]
              /\ rendered' = <<Build(builder, a, now)>>
    /\ UNCHANGED <<renderVars, fsVars, resp, batchVars, concVars>>

(* the same builder called with the same arguments at a later time *)
CallBuilderAgain ==
    /\ req.handler = "builder" /\ Len(rendered) = 1
    /\ \E now \in Clock :
          rendered' = Append(rendered, Build(req.args[1], req.args[2], now))
    /\ UNCHANGED <<renderVars, fsVars, req, resp, batchVars, concVars>>

(* C18: every payload builder is a pure function of its arguments: two     *)
(* calls with equal arguments, made at any two times, return equal strings *)
C18_BuildersArePure ==
    (req.handler = "builder" /\ Len(rendered) = 2) =>
        rendered[1] = rendered[2]

----------------------------------------------------------------------------
(* The gradient bitmap, src/qrgen/qr.py lines 156-173 *)

MaxSide == 5

GradColours == {<<31, 162, 213>>, <<10, 116, 177>>, <<0, 0, 0>>, <<255, 255, 255>>}

GradAngles == {0, 45, 90, 135, 180, 360}

(* GradRow with t = y / pixel_size: the last row stops short of c2 *)
GradRowShort(N, c1, c2, y) ==
    [i \in 1..3 |-> c1[i] + ((c2[i] - c1[i]) * y) \div N]

(* lines 162-165: row y of grad_base, t = y / max(1, pixel_size - 1); the  *)
(* channel values are never negative, so int() is the floor                *)
GradRow(N, c1, c2, y) ==
    [i \in 1..3 |-> c1[i] + ((c2[i] - c1[i]) * y) \div Max(1, N - 1)]

(* Image.rotate(rho, resample=BICUBIC, expand=False) of the N x N bitmap:  *)
(* the row of grad_base that the output pixel (x, y) is sampled from, or   *)
(* -1 when the pixel's preimage lies outside the bitmap. Quarter turns are *)
(* transpositions; for the odd multiples of 45 degrees the preimage of the *)
(* pixel centre is (dx -+ dy, +-dx + dy) / sqrt(2) off the centre, here in *)
(* half pixels and with 99/140 for 1/sqrt(2) where a row is selected.      *)
SourceRow(N, rho, x, y) ==
    LET dx == 2 * x + 1 - N
        dy == 2 * y + 1 - N
        Row(sy) == Max(0, IF (N + sy) \div 2 > N - 1 THEN N - 1
                          ELSE (N + sy) \div 2)
        Diagonal(sy) ==
            IF (dx - dy) * (dx - dy) < 2 * N * N
               /\ (dx + dy) * (dx + dy) < 2 * N * N
            THEN Row((sy * 99) \div 140) ELSE -1
    IN CASE rho = 0 -> y
         [] rho = 90 -> x
         [] rho = 180 -> N - 1 - y
         [] rho = 270 -> N - 1 - x
         [] rho = 45 -> Diagonal(dx + dy)
         [] rho = 135 -> Diagonal(dx - dy)
         [] rho = 225 -> Diagonal(0 - dx - dy)
         [] rho = 315 -> Diagonal(dy - dx)

(* lines 167-169: rotated_grad; pixels without a preimage are (0,0,0,0) *)
rotated_grad(N, c1, c2, angle) ==
    [y \in 0..(N - 1) |->
        [x \in 0..(N - 1) |->
            LET row == SourceRow(N, (90 - angle) % 360, x, y)
            IN IF row < 0 THEN <<0, 0, 0, 0>>
               ELSE GradRow(N, c1, c2, row) \o <<Opaque>>]]

CallGradient ==
    /\ req = NoRequest
    /\ \E N \in 2..MaxSide, c1 \in GradColours, c2 \in GradColours,
          angle \in GradAngles :
          /\ req' = [handler |-> "gradient", args |-> <<N, c1, c2, angle>>]
          /\ resp' = [img |-> "", msg |-> rotated_grad(N, c1, c2, angle),
                      err |-> ""]
    /\ UNCHANGED <<renderVars, fsVars, rendered, batchVars, concVars>>

(* C21: at angle 90 row 0 of the gradient bitmap is exactly A, row N-1 is  *)
(* exactly B and each channel varies monotonically down the rows between   *)
(* the two endpoint values; at angle 0 the same ramp runs horizontally.    *)
C21_GradientRamp ==
    (req.handler = "gradient" /\ req.args[4] \in {0, 90}) =>
        LET N == req.args[1]
            A == req.args[2]
            B == req.args[3]
            (* the pixel at step k of the ramp, on line j across it *)
            At(k, j) == IF req.args[4] = 90 THEN resp.msg[k][j]
                        ELSE resp.msg[j][k]
            Between(v, a, b) == (a <= v /\ v <= b) \/ (b <= v /\ v <= a)
        IN \A j \in 0..(N - 1) :
              /\ At(0, j) = A \o <<Opaque>>
              /\ At(N - 1, j) = B \o <<Opaque>>
              /\ \A k \in 0..(N - 1), i \in 1..3 :
                    /\ Between(At(k, j)[i], A[i], B[i])
                    /\ k > 0 => Between(At(k, j)[i], At(k - 1, j)[i], B[i])

(* a gradient at angle 90 or 0 between two distinct colours *)
C21_Witness ==
    /\ req.handler = "gradient" /\ req.args[4] \in {0, 90}
    /\ req.args[1] = MaxSide
    /\ req.args[2] = <<31, 162, 213>> /\ req.args[3] = <<10, 116, 177>>
    /\ resp.msg[1][1] # resp.msg[2][2]

(* C22: for every gradient angle, multiples of 90 or not, every pixel of   *)
(* the rotated gradient bitmap is fully opaque: the corners uncovered by   *)
(* the rotation are filled with the edge colour, never with transparency.  *)
C22_RotatedGradientOpaque ==
    req.handler = "gradient" =>
        \A y \in 0..(req.args[1] - 1), x \in 0..(req.args[1] - 1) :
            resp.msg[y][x][4] = Opaque

----------------------------------------------------------------------------
(* The alpha the logo is pasted with, src/qrgen/qr.py lines 268-302, at    *)
(* one pixel of the resized logo. The opacity is given in percent.         *)

LogoAlphas == {0, 128, Opaque}
Opacities == {0, 50, 100}

(* float(logo_opacity or 1.0) < 1.0: an opacity of 0 counts as 1.0 *)
ScalesAlpha(opacity) == (IF opacity = 0 THEN 100 ELSE opacity) < 100

(* lines 270-272: the logo's own alpha after the opacity *)
opacity_alpha(la, opacity) ==
    IF ScalesAlpha(opacity) THEN (la * opacity) \div 100 ELSE la

(* lines 290-299: the clip mask lm, an ellipse or the full rectangle *)
clip_mask(clip, inside, opacity) ==
    LET lm == IF clip = "square" \/ inside THEN Opaque ELSE 0
    IN IF ScalesAlpha(opacity) THEN (lm * opacity) \div 100 ELSE lm

(* lines 300-302: logo.putalpha(lm) replaces the alpha band; the paste     *)
(* uses logo.split()[-1] as its mask                                       *)
paste_alpha(la, opacity, clip, inside) ==
    IF clip # "none" THEN clip_mask(clip, inside, opacity)
    ELSE opacity_alpha(la, opacity)

CallPasteLogo ==
    /\ req = NoRequest
    /\ \E la \in LogoAlphas, opacity \in Opacities, clip \in Clips,
          inside \in BOOLEAN :
          /\ clip # "circle" => inside
          /\ req' = [handler |-> "paste_logo",
                     args |-> <<la, opacity, clip, inside>>]
          /\ resp' = [img |-> "",
                      msg |-> <<paste_alpha(la, opacity, clip, inside)>>,
                      err |-> ""]
    /\ UNCHANGED <<renderVars, fsVars, rendered, batchVars, concVars>>

(* C24: the logo's alpha channel is multiplied by the opacity before the   *)
(* logo is pasted: opacity 0 leaves the image as if no logo were pasted,   *)
(* opacity 1 leaves the logo's alpha unchanged.                            *)
C24_OpacityScalesAlpha ==
    (req.handler = "paste_logo" /\ req.args[3] = "none") =>
        resp.msg[1] = (req.args[1] * req.args[2]) \div 100

(* C25: with clip circle or square the alpha used to paste the logo is the *)
(* intersection of the clip mask with the logo's own (opacity-scaled)      *)
(* alpha: a pixel transparent in the source logo stays transparent, a      *)
(* pixel outside the clip shape is not pasted.                             *)
C25_ClipIntersectsAlpha ==
    (req.handler = "paste_logo" /\ req.args[3] # "none") =>
        resp.msg[1] = IF req.args[4]
                      THEN opacity_alpha(req.args[1], req.args[2])
                      ELSE 0

----------------------------------------------------------------------------
NextLib ==
    \/ CallBuildVcard \/ CallResolvePalette \/ CallToRgbTuple
    \/ CallBuilder \/ CallBuilderAgain \/ CallGradient
    \/ CallPasteLogo

SpecLib == InitLib /\ [][NextLib]_vars

====
